---------------------------- MODULE Spec2Model ----------------------------
(***************************************************************************)
(* pebble-dice: the dice model (model.c), the roll animator (roll_anim.c)  *)
(* and the application state machine (state.c), with the Pebble timer      *)
(* service (app_timer_register / app_timer_cancel) the two of them use.    *)
(*                                                                         *)
(* Every handler runs to completion (single-threaded event loop), so each  *)
(* handler is one action.  The C functions are operators from a "world"    *)
(* record (all the static state of the three translation units plus the    *)
(* timer service) to the world after the call; a handler's action applies  *)
(* the operator of its entry point to the current world.                   *)
(***************************************************************************)
EXTENDS Integers, Sequences, FiniteSets, TLC

VARIABLES
  s_ctx,      \* state.c: static StateContext s_ctx
  s_state,    \* roll_anim.c: static RollAnimState s_state
  timers,     \* the timer service: the timers registered and not yet fired or cancelled
  view,       \* the UiRenderData most recently handed to ui_render
  obs,        \* the calls made during the current roll (see NoObs)
  roll_commits, \* model_commit_roll_result calls made since the last model_begin_roll
  rolls,      \* the rolls begun (prv_begin_roll past its guard) since state_init
  mdl,        \* a free-standing DiceModel driven through model.h directly
  mlog        \* whether model_begin_roll was called on mdl, and the values committed since

vars == <<s_ctx, s_state, timers, view, obs, roll_commits, rolls, mdl, mlog>>

-----------------------------------------------------------------------------
(* Bounds of the exploration *)

\* The user never starts a roll of more than MaxRollDice dice, and never builds a
\* configuration of more dice than that, other than the all-default one, 1d6 per
\* group, that fills the model to capacity, and a first group of any count up to
\* MAX_DICE_PER_GROUP, which is not rolled: it can be committed and rewound.
MaxRollDice == 2
\* The user picks kinds among D6 and the MaxKindDown kinds below it (with wrap-around),
\* and changes the kind only while no group is committed.
MaxKindDown == 3
\* The user begins at most MaxRolls rolls between state_init and state_deinit, and
\* gives no input to the pickers after the last of them.
MaxRolls == 1
\* Free-standing model: at most this many groups, this many dice per group
MaxModelGroups == 3
MaxModelCount == 2
\* Free-standing model: the selection calls take deltas of at most this magnitude
MaxDelta == 9
\* Normalization alone: raw samples go down to -MaxRawBelow
MaxRawBelow == 2

-----------------------------------------------------------------------------
(* model.h *)

MAX_DICE_GROUPS == 8
MAX_DICE_PER_GROUP == 10
MAX_RESULTS_PER_GROUP == MAX_DICE_PER_GROUP

DICE_KIND_D4 == 0
DICE_KIND_D6 == 1
DICE_KIND_D8 == 2
DICE_KIND_D10 == 3
DICE_KIND_D12 == 4
DICE_KIND_D20 == 5
DICE_KIND_D100 == 6
DICE_KIND_PERCENTILE == 7
DICE_KIND_COUNT == 8

NULL == 0

\* C's integer division and remainder (truncation toward zero)
CDiv(a, b) == IF a >= 0 THEN a \div b ELSE -((-a) \div b)
CMod(a, b) == a - b * CDiv(a, b)

\* rand(): 0, and a multiple of every roll range (and of the final-tick span) minus
\* one, so that rand() % range is 0 or range-1
RandOutputs == {0, 600 - 1}

-----------------------------------------------------------------------------
(* model.c *)

DieDef(ds, rs, l, zb, tm) ==
  [display_sides |-> ds, roll_sides |-> rs, label |-> l, zero_based |-> zb, tens_mode |-> tm]

s_die_defs ==
  [k \in 0..(DICE_KIND_COUNT - 1) |->
     CASE k = DICE_KIND_D4 -> DieDef(4, 4, "d4", FALSE, FALSE)
       [] k = DICE_KIND_D6 -> DieDef(6, 6, "d6", FALSE, FALSE)
       [] k = DICE_KIND_D8 -> DieDef(8, 8, "d8", FALSE, FALSE)
       [] k = DICE_KIND_D10 -> DieDef(10, 10, "d10", FALSE, FALSE)
       [] k = DICE_KIND_D12 -> DieDef(12, 12, "d12", FALSE, FALSE)
       [] k = DICE_KIND_D20 -> DieDef(20, 20, "d20", FALSE, FALSE)
       [] k = DICE_KIND_D100 -> DieDef(100, 10, "d100", TRUE, TRUE)
       [] k = DICE_KIND_PERCENTILE -> DieDef(100, 100, "d%", TRUE, FALSE)]

\* prv_die_def_at_index(index) != NULL
HasDieDef(index) == ~(index < 0 \/ index >= DICE_KIND_COUNT)

ZeroResults == [i \in 0..(MAX_RESULTS_PER_GROUP - 1) |-> 0]
ZeroGroup == [sides |-> 0, count |-> 0, results |-> ZeroResults, die_def_index |-> 0]
ZeroGroups == [g \in 0..(MAX_DICE_GROUPS - 1) |-> ZeroGroup]

\* prv_clamp_selection without the upper limit of the count
prv_clamp_selection_no_max(m) ==
  LET m1 == IF m.selected_die_index < 0
              THEN [m EXCEPT !.selected_die_index = 0]
              ELSE IF m.selected_die_index >= DICE_KIND_COUNT
                     THEN [m EXCEPT !.selected_die_index = DICE_KIND_COUNT - 1]
                     ELSE m
  IN IF m1.selected_count < 1
       THEN [m1 EXCEPT !.selected_count = 1]
       ELSE m1

prv_clamp_selection(m) ==
  LET m1 == IF m.selected_die_index < 0
              THEN [m EXCEPT !.selected_die_index = 0]
              ELSE IF m.selected_die_index >= DICE_KIND_COUNT
                     THEN [m EXCEPT !.selected_die_index = DICE_KIND_COUNT - 1]
                     ELSE m
  IN IF m1.selected_count < 1
       THEN [m1 EXCEPT !.selected_count = 1]
       ELSE IF m1.selected_count > MAX_DICE_PER_GROUP
              THEN [m1 EXCEPT !.selected_count = MAX_DICE_PER_GROUP]
              ELSE m1

model_init ==
  [groups |-> ZeroGroups, group_count |-> 0,
   selected_die_index |-> DICE_KIND_D6, selected_count |-> 1,
   roll_group_index |-> 0, roll_die_index |-> 0]

model_increment_selected_die(m, delta) ==
  [m EXCEPT !.selected_die_index =
     CMod(m.selected_die_index + DICE_KIND_COUNT + delta, DICE_KIND_COUNT)]

\* model_increment_selected_count without the clamp
model_increment_selected_count_unclamped(m, delta) ==
  [m EXCEPT !.selected_count = @ + delta]

model_increment_selected_count(m, delta) ==
  prv_clamp_selection([m EXCEPT !.selected_count = @ + delta])

model_get_selected_sides(m) ==
  IF HasDieDef(m.selected_die_index) THEN s_die_defs[m.selected_die_index].display_sides ELSE 0

\* model_commit_group: its return value, and the model it leaves
model_commit_group_ok(m) == ~(m.group_count >= MAX_DICE_GROUPS)

\* model_commit_group refusing only past MAX_DICE_GROUPS
model_commit_group_one_more(m) ==
  IF m.group_count > MAX_DICE_GROUPS
    THEN m
    ELSE [m EXCEPT !.group_count = @ + 1,
                   !.groups = [g \in DOMAIN @ |->
                                 IF g = m.group_count
                                   THEN [die_def_index |-> m.selected_die_index,
                                         sides |-> model_get_selected_sides(m),
                                         count |-> m.selected_count,
                                         results |-> ZeroResults]
                                   ELSE @[g]]]

model_commit_group(m) ==
  IF m.group_count >= MAX_DICE_GROUPS
    THEN m
    ELSE [m EXCEPT !.group_count = @ + 1,
                   !.groups[m.group_count] =
                      [die_def_index |-> m.selected_die_index,
                       sides |-> model_get_selected_sides(m),
                       count |-> m.selected_count,
                       results |-> ZeroResults]]

\* model_clear_groups leaving the roll cursor where the roll ended
model_clear_groups_cursor_kept(m) ==
  [m EXCEPT !.groups = ZeroGroups, !.group_count = 0]

model_clear_groups(m) ==
  [m EXCEPT !.groups = ZeroGroups, !.group_count = 0,
            !.roll_group_index = 0, !.roll_die_index = 0]

model_has_groups(m) == m.group_count > 0

\* model_begin_roll leaving the die index of the cursor as it was
model_begin_roll_keep_die(m) ==
  [m EXCEPT !.groups = [g \in DOMAIN @ |->
                          IF g < m.group_count THEN [@[g] EXCEPT !.results = ZeroResults]
                                               ELSE @[g]],
            !.roll_group_index = 0]

model_begin_roll(m) ==
  [m EXCEPT !.groups = [g \in DOMAIN @ |->
                          IF g < m.group_count THEN [@[g] EXCEPT !.results = ZeroResults]
                                               ELSE @[g]],
            !.roll_group_index = 0, !.roll_die_index = 0]

model_has_roll_remaining(m) == m.roll_group_index < m.group_count

model_group_sides(group) == group.sides

model_current_roll_sides(m) ==
  IF ~model_has_roll_remaining(m) THEN 0
  ELSE model_group_sides(m.groups[m.roll_group_index])

model_current_roll_kind(m) ==
  IF ~model_has_roll_remaining(m) THEN DICE_KIND_D6
  ELSE m.groups[m.roll_group_index].die_def_index

model_kind_roll_sides(kind) == IF HasDieDef(kind) THEN s_die_defs[kind].roll_sides ELSE 0
model_kind_zero_based(kind) == IF HasDieDef(kind) THEN s_die_defs[kind].zero_based ELSE FALSE
model_kind_tens_mode(kind) == IF HasDieDef(kind) THEN s_die_defs[kind].tens_mode ELSE FALSE

model_current_roll_range(m) ==
  IF ~model_has_roll_remaining(m) THEN 0
  ELSE model_kind_roll_sides(model_current_roll_kind(m))

\* model_commit_roll_result starting the next group at die index 1
model_commit_roll_result_from_one(m, value) ==
  IF ~model_has_roll_remaining(m) THEN m
  ELSE
    LET gi == m.roll_group_index
        group == m.groups[gi]
        m1 == IF m.roll_die_index < group.count
                THEN [m EXCEPT !.groups[gi].results[m.roll_die_index] = value]
                ELSE m
        m2 == [m1 EXCEPT !.roll_die_index = @ + 1]
    IN IF m2.roll_die_index >= group.count
         THEN [m2 EXCEPT !.roll_group_index = @ + 1, !.roll_die_index = 1]
         ELSE m2

\* model_commit_roll_result keeping the die index when it moves to the next group
model_commit_roll_result_keep(m, value) ==
  IF ~model_has_roll_remaining(m) THEN m
  ELSE
    LET gi == m.roll_group_index
        group == m.groups[gi]
        m1 == IF m.roll_die_index < group.count
                THEN [m EXCEPT !.groups[gi].results[m.roll_die_index] = value]
                ELSE m
        m2 == [m1 EXCEPT !.roll_die_index = @ + 1]
    IN IF m2.roll_die_index >= group.count
         THEN [m2 EXCEPT !.roll_group_index = @ + 1]
         ELSE m2

model_commit_roll_result(m, value) ==
  IF ~model_has_roll_remaining(m) THEN m
  ELSE
    LET gi == m.roll_group_index
        group == m.groups[gi]
        m1 == IF m.roll_die_index < group.count
                THEN [m EXCEPT !.groups[gi].results[m.roll_die_index] = value]
                ELSE m
        m2 == [m1 EXCEPT !.roll_die_index = @ + 1]
    IN IF m2.roll_die_index >= group.count
         THEN [m2 EXCEPT !.roll_group_index = @ + 1, !.roll_die_index = 0]
         ELSE m2

RECURSIVE SumCounts(_, _)
\* the sum of groups[0..n-1].count, the loop of the two functions below
SumCounts(m, n) == IF n <= 0 THEN 0 ELSE SumCounts(m, n - 1) + m.groups[n - 1].count

model_roll_completed_dice(m) == SumCounts(m, m.roll_group_index) + m.roll_die_index

model_roll_total_dice(m) == SumCounts(m, m.group_count)

model_reset_selection_count(m) == prv_clamp_selection([m EXCEPT !.selected_count = 1])

-----------------------------------------------------------------------------
(* The world the C functions act on, and the services of the platform *)

\* rand(): the next of the values the handler's run draws
NextRand(w) == Head(w.rnd)
TakeRand(w) == [w EXCEPT !.rnd = Tail(@)]

TimerIds == 1..4

\* obs at the start of a roll:
\*   starts     roll_anim_start calls since prv_begin_roll
\*   previews   on_preview calls since the last roll_anim_start
\*   completes  on_complete calls since prv_begin_roll
\*   last       the last two animator callbacks invoked, as <<name, value>>
\*   popped     whether window_stack_pop has been called
NoObs == [starts |-> 0, previews |-> 0, completes |-> 0, last |-> <<>>, popped |-> FALSE]

\* the handle app_timer_register returns: one that is neither registered nor
\* still held by the program
FreshTimer(w) ==
  CHOOSE i \in TimerIds :
    /\ \A t \in w.timers : t.id # i
    /\ i # w.anim.timer
    /\ i # w.ctx.result_hold_timer
    /\ \A j \in TimerIds :
         (j < i) => \/ \E t \in w.timers : t.id = j
                    \/ j = w.anim.timer
                    \/ j = w.ctx.result_hold_timer

app_timer_register(w, ms, cb) ==
  [w EXCEPT !.timers = @ \cup {[id |-> FreshTimer(w), cb |-> cb, ms |-> ms]}]

app_timer_cancel(w, handle) ==
  [w EXCEPT !.timers = {t \in @ : t.id # handle}]

\* an animator callback is invoked: counted, and the last two kept in order
Called(w, name, value) ==
  [w EXCEPT !.obs.last = IF Len(@) < 2 THEN Append(@, <<name, value>>)
                                       ELSE <<@[2], <<name, value>>>>,
            !.obs.previews = IF name = "on_preview" THEN @ + 1 ELSE @,
            !.obs.completes = IF name = "on_complete" THEN @ + 1 ELSE @]

-----------------------------------------------------------------------------
(* roll_anim.c *)

s_main_stages ==
  [i \in 0..2 |->
     CASE i = 0 -> [duration_ms |-> 700, step_ms |-> 40]
       [] i = 1 -> [duration_ms |-> 500, step_ms |-> 70]
       [] i = 2 -> [duration_ms |-> 300, step_ms |-> 110]]
s_main_stage_count == Cardinality(DOMAIN s_main_stages)
s_final_hold_ms == 350
s_final_ticks_min == 3
s_final_ticks_max == 4

RECURSIVE MainDuration(_)
MainDuration(n) == IF n <= 0 THEN 0 ELSE MainDuration(n - 1) + s_main_stages[n - 1].duration_ms

prv_total_main_duration == MainDuration(s_main_stage_count)

prv_random_roll(sides, r) == IF sides <= 0 THEN 0 ELSE CMod(r, sides) + 1

\* prv_stage_tick_limit counting one tick more than duration / step
prv_stage_tick_limit_one_more(stage_index) ==
  IF stage_index < 0 \/ stage_index >= s_main_stage_count
    THEN 1
    ELSE CDiv(s_main_stages[stage_index].duration_ms,
              s_main_stages[stage_index].step_ms) + 1

prv_stage_tick_limit(stage_index) ==
  IF stage_index < 0 \/ stage_index >= s_main_stage_count
    THEN 1
    ELSE LET ticks == CDiv(s_main_stages[stage_index].duration_ms,
                           s_main_stages[stage_index].step_ms)
         IN IF ticks < 1 THEN 1 ELSE ticks

\* prv_finish_animation leaving elapsed_ms where the last tick put it
prv_finish_animation_elapsed_kept(w) ==
  [w EXCEPT !.anim.running = FALSE,
            !.anim.timer = NULL]

\* prv_finish_animation leaving the animator marked running
prv_finish_animation_running(w) ==
  [w EXCEPT !.anim.timer = NULL,
            !.anim.elapsed_ms = w.anim.total_duration_ms]

prv_finish_animation(w) ==
  [w EXCEPT !.anim.running = FALSE,
            !.anim.timer = NULL,
            !.anim.elapsed_ms = w.anim.total_duration_ms]

\* s_state after roll_anim_init: memset 0, then the tick limit of stage 0
roll_anim_init ==
  [timer |-> NULL, sides |-> 0, running |-> FALSE,
   stage_index |-> 0, stage_tick |-> 0, stage_tick_limit |-> prv_stage_tick_limit(0),
   in_final_stage |-> FALSE, in_hold_stage |-> FALSE,
   final_tick_target |-> 0, final_tick_count |-> 0, final_tick_interval_ms |-> 0,
   final_duration_ms |-> 0, hold_duration_ms |-> 0,
   pending_final_value |-> 0, has_pending_value |-> FALSE,
   total_duration_ms |-> 0, elapsed_ms |-> 0]

\* roll_anim_deinit stopping the animator without cancelling its timer
roll_anim_deinit_leak(w) ==
  [w EXCEPT !.anim.timer = NULL, !.anim.running = FALSE]

roll_anim_deinit(w) ==
  LET w1 == IF w.anim.timer # NULL
              THEN [app_timer_cancel(w, w.anim.timer) EXCEPT !.anim.timer = NULL]
              ELSE w
  IN [w1 EXCEPT !.anim.running = FALSE]

roll_anim_start(w, sides) ==
  LET w1 == IF w.anim.running /\ w.anim.timer # NULL
              THEN app_timer_cancel(w, w.anim.timer)
              ELSE w
      span == s_final_ticks_max - s_final_ticks_min + 1
      target0 == s_final_ticks_min + (IF span > 0 THEN CMod(NextRand(w1), span) ELSE 0)
      target == IF target0 <= 0 THEN s_final_ticks_min ELSE target0
      interval0 == CDiv(1500, target)
      interval == IF interval0 <= 0 THEN 350 ELSE interval0
      w2 == IF span > 0 THEN TakeRand(w1) ELSE w1
      w3 == [w2 EXCEPT !.anim =
               [@ EXCEPT !.sides = sides,
                         !.stage_index = 0,
                         !.stage_tick = 0,
                         !.stage_tick_limit = prv_stage_tick_limit(0),
                         !.in_final_stage = FALSE,
                         !.in_hold_stage = FALSE,
                         !.final_tick_target = target,
                         !.final_duration_ms = 1500,
                         !.final_tick_interval_ms = interval,
                         !.final_tick_count = 0,
                         !.hold_duration_ms = s_final_hold_ms,
                         !.pending_final_value = 0,
                         !.has_pending_value = FALSE,
                         !.elapsed_ms = 0,
                         !.total_duration_ms = prv_total_main_duration + 1500 + s_final_hold_ms,
                         !.running = TRUE],
                      !.obs.starts = @ + 1,
                      !.obs.previews = 0]
  IN [app_timer_register(w3, s_main_stages[0].step_ms, "anim")
        EXCEPT !.anim.timer = FreshTimer(w3)]

roll_anim_is_running(w) == w.anim.running

roll_anim_progress_per_mille(w) ==
  IF w.anim.total_duration_ms <= 0
    THEN (IF w.anim.running THEN 0 ELSE 1000)
    ELSE LET progress == CDiv(w.anim.elapsed_ms * 1000, w.anim.total_duration_ms)
         IN IF progress > 1000 THEN 1000 ELSE IF progress < 0 THEN 0 ELSE progress

-----------------------------------------------------------------------------
(* state.c *)

RESULT_HOLD_MS == 1000

HINT_REROLL == "RE"
HINT_SELECT_HOLD_ROLL == "Sel/\nHold\nRoll"
HINT_SELECT_SKIP == "Tap\nSkip"
HINT_SCROLL == "v"
HINT_BOTTOM_CLEAR == "Clr"
HINT_CONFIRM == "Cnfm"
HINT_ARROW_UP == "^"
HINT_ARROW_DOWN == "v"
HINT_PLUS == "+"
HINT_MINUS == "-"

AppStates == {"PICK_DIE", "PICK_COUNT", "ADD_GROUP_PROMPT", "ROLLING", "RESULTS"}

prv_prepare_roll_metadata(w) ==
  LET kind == model_current_roll_kind(w.ctx.model)
      range0 == model_current_roll_range(w.ctx.model)
      range1 == IF range0 <= 0 THEN model_current_roll_sides(w.ctx.model) ELSE range0
      range == IF range1 <= 0 THEN 1 ELSE range1
  IN [w EXCEPT !.ctx.roll_kind = kind,
               !.ctx.roll_range = range,
               !.ctx.roll_zero_based = model_kind_zero_based(kind),
               !.ctx.roll_tens_mode = model_kind_tens_mode(kind)]

\* prv_normalize_roll_value without the tens multiplication
prv_normalize_roll_value_units(w, raw_value) ==
  IF raw_value <= 0 THEN 0
  ELSE IF w.ctx.roll_zero_based
         THEN (IF raw_value - 1 < 0 THEN 0 ELSE raw_value - 1)
         ELSE raw_value

\* prv_normalize_roll_value without the zero-based shift
prv_normalize_roll_value_one_based(w, raw_value) ==
  IF raw_value <= 0 THEN 0
  ELSE IF w.ctx.roll_tens_mode THEN raw_value * 10 ELSE raw_value

prv_normalize_roll_value(w, raw_value) ==
  IF raw_value <= 0 THEN 0
  ELSE LET v1 == IF w.ctx.roll_zero_based
                   THEN (IF raw_value - 1 < 0 THEN 0 ELSE raw_value - 1)
                   ELSE raw_value
       IN IF w.ctx.roll_tens_mode THEN v1 * 10 ELSE v1

\* the value of prv_random_result_value; it draws from rand() when roll_range > 0
prv_random_result_value(w) ==
  IF w.ctx.roll_range <= 0 THEN 0
  ELSE prv_normalize_roll_value(w, CMod(NextRand(w), w.ctx.roll_range) + 1)

Hints(top, middle, bottom) == <<top, middle, bottom>>

prv_render(w) ==
  LET st == w.ctx.current_state
      hints ==
        CASE st = "PICK_DIE" -> Hints(HINT_ARROW_UP, HINT_SELECT_HOLD_ROLL, HINT_ARROW_DOWN)
          [] st = "PICK_COUNT" -> Hints(HINT_PLUS, HINT_SELECT_HOLD_ROLL, HINT_MINUS)
          [] st = "ADD_GROUP_PROMPT" ->
               IF model_has_groups(w.ctx.model)
                 THEN Hints(HINT_ARROW_UP, HINT_SELECT_HOLD_ROLL,
                            IF w.ctx.confirm_clear_prompt THEN HINT_CONFIRM ELSE HINT_BOTTOM_CLEAR)
                 ELSE Hints("", "", "")
          [] st = "ROLLING" -> Hints(HINT_REROLL, HINT_SELECT_SKIP, HINT_SCROLL)
          [] st = "RESULTS" -> Hints(HINT_REROLL, HINT_SELECT_HOLD_ROLL, HINT_SCROLL)
  IN [w EXCEPT !.view = [state |-> st,
                         rolling_value |-> w.ctx.rolling_value,
                         anim_progress_per_mille |-> roll_anim_progress_per_mille(w),
                         confirm_clear_prompt |-> w.ctx.confirm_clear_prompt,
                         hint_top |-> hints[1],
                         hint_middle |-> hints[2],
                         hint_bottom |-> hints[3]]]

\* prv_set_state rendering only when the state does not change
prv_set_state_silent(w, new_state) ==
  IF w.ctx.current_state = new_state THEN prv_render(w)
  ELSE [w EXCEPT !.ctx.confirm_clear_prompt =
                    IF new_state # "ADD_GROUP_PROMPT" THEN FALSE ELSE @,
                 !.ctx.current_state = new_state]

\* prv_set_state not disarming the confirmation prompt
prv_set_state_prompt_kept(w, new_state) ==
  IF w.ctx.current_state = new_state
    THEN prv_render(w)
    ELSE prv_render([w EXCEPT !.ctx.current_state = new_state])

prv_set_state(w, new_state) ==
  IF w.ctx.current_state = new_state
    THEN prv_render(w)
    ELSE prv_render([w EXCEPT !.ctx.confirm_clear_prompt =
                                 IF new_state # "ADD_GROUP_PROMPT" THEN FALSE ELSE @,
                              !.ctx.current_state = new_state])

\* prv_anim_preview writing the previewed value into the model as well
prv_anim_preview_committing(w, value) ==
  prv_render([Called(w, "on_preview", value)
                EXCEPT !.ctx.model = model_commit_roll_result(@, prv_normalize_roll_value(w, value)),
                       !.ctx.rolling_value = prv_normalize_roll_value(w, value)])

prv_anim_preview(w, value) ==
  prv_render([Called(w, "on_preview", value)
                EXCEPT !.ctx.rolling_value = prv_normalize_roll_value(w, value)])

prv_commit_result(w, value) ==
  [w EXCEPT !.ctx.model = model_commit_roll_result(@, value),
            !.ctx.rolling_value = value,
            !.rc = @ + 1]

\* prv_cancel_result_hold_timer clearing the handle without app_timer_cancel
prv_cancel_result_hold_timer_leak(w) ==
  IF w.ctx.result_hold_timer # NULL
    THEN [w EXCEPT !.ctx.result_hold_timer = NULL]
    ELSE w

prv_cancel_result_hold_timer(w) ==
  IF w.ctx.result_hold_timer # NULL
    THEN [app_timer_cancel(w, w.ctx.result_hold_timer) EXCEPT !.ctx.result_hold_timer = NULL]
    ELSE w

\* prv_restore_saved_model dropping the snapshot but leaving quick_roll_active set
prv_restore_saved_model_still_active(w) ==
  IF ~w.ctx.quick_roll_active \/ ~w.ctx.has_saved_model THEN w
  ELSE prv_render([w EXCEPT !.ctx.model = w.ctx.saved_model,
                            !.ctx.has_saved_model = FALSE])

prv_restore_saved_model(w) ==
  IF ~w.ctx.quick_roll_active \/ ~w.ctx.has_saved_model THEN w
  ELSE prv_render([w EXCEPT !.ctx.model = w.ctx.saved_model,
                            !.ctx.quick_roll_active = FALSE,
                            !.ctx.has_saved_model = FALSE])

\* prv_finish_roll leaving skip_requested as it is
prv_finish_roll_skip_kept(w) ==
  prv_set_state(prv_cancel_result_hold_timer(w), "RESULTS")

\* prv_finish_roll restoring the saved model as the roll completes
prv_finish_roll_restoring(w) ==
  prv_set_state(
    [prv_restore_saved_model(prv_cancel_result_hold_timer(w)) EXCEPT !.ctx.skip_requested = FALSE],
    "RESULTS")

prv_finish_roll(w) ==
  prv_set_state([prv_cancel_result_hold_timer(w) EXCEPT !.ctx.skip_requested = FALSE],
                "RESULTS")

RECURSIVE prv_start_next_die(_)
prv_start_next_die(w) ==
  LET w1 == prv_cancel_result_hold_timer(w)
  IN IF ~model_has_roll_remaining(w1.ctx.model)
       THEN prv_finish_roll(w1)
       ELSE LET w2 == [prv_prepare_roll_metadata(w1) EXCEPT !.ctx.rolling_value = -1]
            IN IF w2.ctx.skip_requested
                 THEN prv_start_next_die(
                        prv_commit_result(
                          IF w2.ctx.roll_range > 0 THEN TakeRand(w2) ELSE w2,
                          prv_random_result_value(w2)))
                 ELSE roll_anim_start(w2, IF w2.ctx.roll_range > 0 THEN w2.ctx.roll_range ELSE 1)

\* prv_after_result without the result-hold timer
prv_after_result_unarmed(w) ==
  IF w.ctx.skip_requested
    THEN prv_start_next_die(w)
    ELSE prv_cancel_result_hold_timer(w)

\* prv_after_result advancing to the next die at once, whether or not a skip
\* was requested
prv_after_result_advance(w) == prv_start_next_die(w)

prv_after_result(w) ==
  IF w.ctx.skip_requested
    THEN prv_start_next_die(w)
    ELSE LET w1 == prv_cancel_result_hold_timer(w)
         IN [app_timer_register(w1, RESULT_HOLD_MS, "hold")
               EXCEPT !.ctx.result_hold_timer = FreshTimer(w1)]

\* prv_anim_complete starting the next die from inside the callback
prv_anim_complete_chaining(w, value) ==
  prv_start_next_die(
    prv_commit_result(Called(w, "on_complete", value), prv_normalize_roll_value(w, value)))

prv_anim_complete(w, value) ==
  prv_after_result(
    prv_commit_result(Called(w, "on_complete", value), prv_normalize_roll_value(w, value)))

prv_result_hold_timer_cb(w) ==
  prv_start_next_die([w EXCEPT !.ctx.result_hold_timer = NULL])

-----------------------------------------------------------------------------
(* roll_anim.c: the functions that call back into state.c *)

\* roll_anim_skip completing without the preview callback
roll_anim_skip_no_preview(w) ==
  IF ~w.anim.running THEN w
  ELSE LET w1 == IF w.anim.timer # NULL
                   THEN [app_timer_cancel(w, w.anim.timer) EXCEPT !.anim.timer = NULL]
                   ELSE w
           result == prv_random_roll(w1.anim.sides, NextRand(w1))
           w2 == IF w1.anim.sides > 0 THEN TakeRand(w1) ELSE w1
           w4 == prv_anim_complete(w2, result)
       IN prv_finish_animation([w4 EXCEPT !.anim.elapsed_ms = w4.anim.total_duration_ms])

\* roll_anim_skip previewing a fresh value but completing with the value held
\* for the Hold expiry, when there is one
roll_anim_skip_pending(w) ==
  IF ~w.anim.running THEN w
  ELSE LET w1 == IF w.anim.timer # NULL
                   THEN [app_timer_cancel(w, w.anim.timer) EXCEPT !.anim.timer = NULL]
                   ELSE w
           result == prv_random_roll(w1.anim.sides, NextRand(w1))
           w2 == IF w1.anim.sides > 0 THEN TakeRand(w1) ELSE w1
           w3 == prv_anim_preview(w2, result)
           w4 == prv_anim_complete(w3, IF w.anim.has_pending_value
                                         THEN w.anim.pending_final_value ELSE result)
       IN prv_finish_animation([w4 EXCEPT !.anim.elapsed_ms = w4.anim.total_duration_ms])

roll_anim_skip(w) ==
  IF ~w.anim.running THEN w
  ELSE LET w1 == IF w.anim.timer # NULL
                   THEN [app_timer_cancel(w, w.anim.timer) EXCEPT !.anim.timer = NULL]
                   ELSE w
           result == prv_random_roll(w1.anim.sides, NextRand(w1))
           w2 == IF w1.anim.sides > 0 THEN TakeRand(w1) ELSE w1
           w3 == prv_anim_preview(w2, result)
           w4 == prv_anim_complete(w3, result)
       IN prv_finish_animation([w4 EXCEPT !.anim.elapsed_ms = w4.anim.total_duration_ms])

prv_timer_handler(w) ==
  IF w.anim.in_hold_stage
    THEN LET w1 == [w EXCEPT !.anim.elapsed_ms = @ + w.anim.hold_duration_ms,
                             !.anim.in_hold_stage = FALSE]
             w2 == IF w1.anim.has_pending_value
                     THEN prv_anim_complete(w1, w1.anim.pending_final_value)
                     ELSE w1
         IN prv_finish_animation(w2)
    ELSE
      LET playing_final == w.anim.in_final_stage
          step_ms == IF playing_final THEN w.anim.final_tick_interval_ms
                                      ELSE s_main_stages[w.anim.stage_index].step_ms
          value == prv_random_roll(w.anim.sides, NextRand(w))
          w1 == prv_anim_preview(IF w.anim.sides > 0 THEN TakeRand(w) ELSE w, value)
          w2 == [w1 EXCEPT !.anim.elapsed_ms = @ + step_ms]
      IN IF ~playing_final
           THEN
             LET a == w2.anim
                 tick == a.stage_tick + 1
                 a1 == IF tick >= a.stage_tick_limit
                         THEN IF a.stage_index + 1 >= s_main_stage_count
                                THEN [a EXCEPT !.stage_tick = tick,
                                               !.stage_index = @ + 1,
                                               !.in_final_stage = TRUE,
                                               !.final_tick_count = 0]
                                ELSE [a EXCEPT !.stage_index = @ + 1,
                                               !.stage_tick = 0,
                                               !.stage_tick_limit =
                                                  prv_stage_tick_limit(a.stage_index + 1)]
                         ELSE [a EXCEPT !.stage_tick = tick]
                 next_delay == IF a1.in_final_stage THEN a1.final_tick_interval_ms
                                                    ELSE s_main_stages[a1.stage_index].step_ms
                 w3 == [w2 EXCEPT !.anim = a1]
             IN [app_timer_register(w3, next_delay, "anim") EXCEPT !.anim.timer = FreshTimer(w3)]
           ELSE
             LET w3 == [w2 EXCEPT !.anim.final_tick_count = @ + 1]
             IN IF w3.anim.final_tick_count >= w3.anim.final_tick_target
                  THEN LET w4 == [w3 EXCEPT !.anim.pending_final_value = value,
                                            !.anim.has_pending_value = TRUE,
                                            !.anim.in_hold_stage = TRUE]
                       IN [app_timer_register(w4, w4.anim.hold_duration_ms, "anim")
                             EXCEPT !.anim.timer = FreshTimer(w4)]
                  ELSE [app_timer_register(w3, w3.anim.final_tick_interval_ms, "anim")
                          EXCEPT !.anim.timer = FreshTimer(w3)]

-----------------------------------------------------------------------------
(* state.c: starting, skipping and leaving a roll *)

\* prv_set_skip_requested without setting skip_requested
prv_set_skip_requested_unset(w) ==
  IF w.ctx.current_state # "ROLLING" THEN w
  ELSE IF w.ctx.skip_requested THEN w
  ELSE LET w2 == IF w.ctx.result_hold_timer # NULL
                   THEN prv_start_next_die(prv_cancel_result_hold_timer(w))
                   ELSE w
       IN IF roll_anim_is_running(w2) THEN roll_anim_skip(w2) ELSE w2

prv_set_skip_requested(w) ==
  IF w.ctx.current_state # "ROLLING" THEN w
  ELSE IF w.ctx.skip_requested THEN w
  ELSE LET w1 == [w EXCEPT !.ctx.skip_requested = TRUE]
           w2 == IF w1.ctx.result_hold_timer # NULL
                   THEN prv_start_next_die(prv_cancel_result_hold_timer(w1))
                   ELSE w1
       IN IF roll_anim_is_running(w2) THEN roll_anim_skip(w2) ELSE w2

prv_begin_roll(w) ==
  IF ~model_has_groups(w.ctx.model) THEN w
  ELSE LET w1 == [prv_cancel_result_hold_timer(w)
                    EXCEPT !.ctx.model = model_begin_roll(@),
                           !.ctx.skip_requested = FALSE,
                           !.ctx.rolling_value = -1,
                           !.rc = 0,
                           !.rolls = @ + 1,
                           !.obs = NoObs]
       IN prv_start_next_die(prv_set_state(w1, "ROLLING"))

\* prv_begin_quick_roll leaving the quick roll marked active when the commit fails
prv_begin_quick_roll_no_abort(w) ==
  IF w.ctx.quick_roll_active THEN w
  ELSE LET selected_index == w.ctx.model.selected_die_index
           selected_count == IF w.ctx.current_state = "PICK_COUNT"
                               THEN w.ctx.model.selected_count ELSE 1
           w1 == [w EXCEPT !.ctx.saved_model = w.ctx.model,
                           !.ctx.has_saved_model = TRUE,
                           !.ctx.quick_roll_active = TRUE,
                           !.ctx.model.selected_die_index = selected_index,
                           !.ctx.model.selected_count = selected_count]
       IN IF ~model_commit_group_ok(w1.ctx.model)
            THEN [w1 EXCEPT !.ctx.model = w1.ctx.saved_model]
            ELSE prv_begin_roll([w1 EXCEPT !.ctx.model = model_commit_group(@)])

prv_begin_quick_roll(w) ==
  IF w.ctx.quick_roll_active THEN w
  ELSE LET selected_index == w.ctx.model.selected_die_index
           selected_count == IF w.ctx.current_state = "PICK_COUNT"
                               THEN w.ctx.model.selected_count ELSE 1
           w1 == [w EXCEPT !.ctx.saved_model = w.ctx.model,
                           !.ctx.has_saved_model = TRUE,
                           !.ctx.quick_roll_active = TRUE,
                           !.ctx.model.selected_die_index = selected_index,
                           !.ctx.model.selected_count = selected_count]
       IN IF ~model_commit_group_ok(w1.ctx.model)
            THEN [w1 EXCEPT !.ctx.quick_roll_active = FALSE,
                            !.ctx.has_saved_model = FALSE,
                            !.ctx.model = w1.ctx.saved_model]
            ELSE prv_begin_roll([w1 EXCEPT !.ctx.model = model_commit_group(@)])

\* prv_rewind_last_group: its return value, and the world it leaves
prv_rewind_last_group_ok(w) == ~(w.ctx.model.group_count <= 0)

\* prv_rewind_last_group restoring the kind but not the count
\* prv_rewind_last_group restoring the selection without removing the group
prv_rewind_last_group_not_popped(w) ==
  IF w.ctx.model.group_count <= 0 THEN w
  ELSE LET last == w.ctx.model.groups[w.ctx.model.group_count - 1]
       IN [w EXCEPT !.ctx.model.selected_die_index = last.die_def_index,
                    !.ctx.model.selected_count = last.count]

prv_rewind_last_group_kind_only(w) ==
  IF w.ctx.model.group_count <= 0 THEN w
  ELSE LET last == w.ctx.model.groups[w.ctx.model.group_count - 1]
       IN [w EXCEPT !.ctx.model.group_count = @ - 1,
                    !.ctx.model.selected_die_index = last.die_def_index]

prv_rewind_last_group(w) ==
  IF w.ctx.model.group_count <= 0 THEN w
  ELSE LET last == w.ctx.model.groups[w.ctx.model.group_count - 1]
       IN [w EXCEPT !.ctx.model.group_count = @ - 1,
                    !.ctx.model.selected_die_index = last.die_def_index,
                    !.ctx.model.selected_count = last.count]

\* a DiceModel of zero bytes
ZeroModel ==
  [groups |-> ZeroGroups, group_count |-> 0, selected_die_index |-> 0, selected_count |-> 0,
   roll_group_index |-> 0, roll_die_index |-> 0]

state_init(w) ==
  IF w.ctx.initialized THEN w
  ELSE prv_set_state(
         [w EXCEPT !.ctx = [current_state |-> "PICK_DIE",
                            model |-> model_init,
                            rolling_value |-> -1,
                            skip_requested |-> FALSE,
                            initialized |-> TRUE,
                            quick_roll_active |-> FALSE,
                            has_saved_model |-> FALSE,
                            saved_model |-> ZeroModel,
                            result_hold_timer |-> NULL,
                            confirm_clear_prompt |-> FALSE,
                            roll_kind |-> 0,
                            roll_range |-> 0,
                            roll_zero_based |-> FALSE,
                            roll_tens_mode |-> FALSE],
                   !.anim = roll_anim_init,
                   !.rc = 0,
                   !.rolls = 0,
                   !.obs = NoObs],
         "PICK_DIE")

state_deinit(w) ==
  [roll_anim_deinit(prv_cancel_result_hold_timer(w)) EXCEPT !.ctx.initialized = FALSE]

-----------------------------------------------------------------------------
(* state.c: the input handlers *)

\* the RESULTS case of state_handle_select and of state_handle_back
\* the RESULTS case of Select and Back without model_clear_groups
LeaveResults_keeping(w) ==
  LET w1 == prv_restore_saved_model(w)
  IN prv_set_state([w1 EXCEPT !.ctx.model = model_reset_selection_count(@)], "PICK_DIE")

LeaveResults(w) ==
  LET w1 == prv_restore_saved_model(w)
  IN prv_set_state(
       [w1 EXCEPT !.ctx.model = model_reset_selection_count(model_clear_groups(@))],
       "PICK_DIE")

\* state_handle_select going to ADD_GROUP_PROMPT from PICK_COUNT even when
\* model_commit_group fails
state_handle_select_advancing(w) ==
  CASE w.ctx.current_state = "PICK_DIE" ->
         prv_set_state([w EXCEPT !.ctx.model = model_reset_selection_count(@)], "PICK_COUNT")
    [] w.ctx.current_state = "PICK_COUNT" ->
         prv_set_state(
           [w EXCEPT !.ctx.model = model_reset_selection_count(model_commit_group(@))],
           "ADD_GROUP_PROMPT")
    [] w.ctx.current_state = "ADD_GROUP_PROMPT" ->
         prv_set_state(
           IF w.ctx.confirm_clear_prompt
             THEN [w EXCEPT !.ctx.model = model_reset_selection_count(model_clear_groups(@)),
                            !.ctx.confirm_clear_prompt = FALSE]
             ELSE w,
           "PICK_DIE")
    [] w.ctx.current_state = "ROLLING" -> prv_set_skip_requested(w)
    [] w.ctx.current_state = "RESULTS" -> LeaveResults(w)

\* state_handle_select clearing the groups in ADD_GROUP_PROMPT whether or not
\* the confirm-clear prompt is armed
state_handle_select_clearing(w) ==
  CASE w.ctx.current_state = "PICK_DIE" ->
         prv_set_state([w EXCEPT !.ctx.model = model_reset_selection_count(@)], "PICK_COUNT")
    [] w.ctx.current_state = "PICK_COUNT" ->
         IF model_commit_group_ok(w.ctx.model)
           THEN prv_set_state(
                  [w EXCEPT !.ctx.model = model_reset_selection_count(model_commit_group(@))],
                  "ADD_GROUP_PROMPT")
           ELSE w
    [] w.ctx.current_state = "ADD_GROUP_PROMPT" ->
         prv_set_state(
           [w EXCEPT !.ctx.model = model_reset_selection_count(model_clear_groups(@)),
                     !.ctx.confirm_clear_prompt = FALSE],
           "PICK_DIE")
    [] w.ctx.current_state = "ROLLING" -> prv_set_skip_requested(w)
    [] w.ctx.current_state = "RESULTS" -> LeaveResults(w)

state_handle_select(w) ==
  CASE w.ctx.current_state = "PICK_DIE" ->
         prv_set_state([w EXCEPT !.ctx.model = model_reset_selection_count(@)], "PICK_COUNT")
    [] w.ctx.current_state = "PICK_COUNT" ->
         IF model_commit_group_ok(w.ctx.model)
           THEN prv_set_state(
                  [w EXCEPT !.ctx.model = model_reset_selection_count(model_commit_group(@))],
                  "ADD_GROUP_PROMPT")
           ELSE w
    [] w.ctx.current_state = "ADD_GROUP_PROMPT" ->
         prv_set_state(
           IF w.ctx.confirm_clear_prompt
             THEN [w EXCEPT !.ctx.model = model_reset_selection_count(model_clear_groups(@)),
                            !.ctx.confirm_clear_prompt = FALSE]
             ELSE w,
           "PICK_DIE")
    [] w.ctx.current_state = "ROLLING" -> prv_set_skip_requested(w)
    [] w.ctx.current_state = "RESULTS" -> LeaveResults(w)

\* state_handle_back going to ADD_GROUP_PROMPT from PICK_DIE whether or not a
\* group exists
state_handle_back_prompting(w) ==
  CASE w.ctx.current_state = "PICK_DIE" -> prv_set_state(w, "ADD_GROUP_PROMPT")
    [] w.ctx.current_state = "PICK_COUNT" -> prv_set_state(w, "PICK_DIE")
    [] w.ctx.current_state = "ADD_GROUP_PROMPT" ->
         IF w.ctx.confirm_clear_prompt
           THEN prv_render([w EXCEPT !.ctx.confirm_clear_prompt = FALSE])
           ELSE IF prv_rewind_last_group_ok(w)
                  THEN prv_set_state(prv_rewind_last_group(w), "PICK_COUNT")
                  ELSE prv_set_state(w, "PICK_DIE")
    [] w.ctx.current_state = "ROLLING" -> prv_set_skip_requested(w)
    [] w.ctx.current_state = "RESULTS" -> LeaveResults(w)

state_handle_back(w) ==
  CASE w.ctx.current_state = "PICK_DIE" ->
         IF model_has_groups(w.ctx.model)
           THEN prv_set_state(w, "ADD_GROUP_PROMPT")
           ELSE [w EXCEPT !.obs.popped = TRUE]
    [] w.ctx.current_state = "PICK_COUNT" -> prv_set_state(w, "PICK_DIE")
    [] w.ctx.current_state = "ADD_GROUP_PROMPT" ->
         IF w.ctx.confirm_clear_prompt
           THEN prv_render([w EXCEPT !.ctx.confirm_clear_prompt = FALSE])
           ELSE IF prv_rewind_last_group_ok(w)
                  THEN prv_set_state(prv_rewind_last_group(w), "PICK_COUNT")
                  ELSE prv_set_state(w, "PICK_DIE")
    [] w.ctx.current_state = "ROLLING" -> prv_set_skip_requested(w)
    [] w.ctx.current_state = "RESULTS" -> LeaveResults(w)

\* state_handle_up requesting a skip in ROLLING, as the other buttons do
state_handle_up_skipping(w) ==
  CASE w.ctx.current_state = "PICK_DIE" ->
         prv_render([w EXCEPT !.ctx.model = model_increment_selected_die(@, 1)])
    [] w.ctx.current_state = "PICK_COUNT" ->
         prv_render([w EXCEPT !.ctx.model = model_increment_selected_count(@, 1)])
    [] w.ctx.current_state = "RESULTS" ->
         IF model_has_groups(w.ctx.model) THEN prv_begin_roll(w) ELSE w
    [] w.ctx.current_state = "ROLLING" -> prv_set_skip_requested(w)
    [] OTHER -> w

state_handle_up(w) ==
  CASE w.ctx.current_state = "PICK_DIE" ->
         prv_render([w EXCEPT !.ctx.model = model_increment_selected_die(@, 1)])
    [] w.ctx.current_state = "PICK_COUNT" ->
         prv_render([w EXCEPT !.ctx.model = model_increment_selected_count(@, 1)])
    [] w.ctx.current_state = "RESULTS" ->
         IF model_has_groups(w.ctx.model) THEN prv_begin_roll(w) ELSE w
    [] OTHER -> w

state_handle_down(w) ==
  CASE w.ctx.current_state = "PICK_DIE" ->
         prv_render([w EXCEPT !.ctx.model = model_increment_selected_die(@, -1)])
    [] w.ctx.current_state = "PICK_COUNT" ->
         prv_render([w EXCEPT !.ctx.model = model_increment_selected_count(@, -1)])
    [] w.ctx.current_state = "ADD_GROUP_PROMPT" ->
         IF model_has_groups(w.ctx.model) /\ ~w.ctx.confirm_clear_prompt
           THEN prv_render([w EXCEPT !.ctx.confirm_clear_prompt = TRUE])
           ELSE w
    [] w.ctx.current_state \in {"ROLLING", "RESULTS"} -> w     \* ui_scroll_step(1), in ui.c

\* whether state_handle_down calls ui_scroll_step(1)
state_handle_down_scrolls(w) == w.ctx.current_state \in {"ROLLING", "RESULTS"}

state_handle_down_long(w) ==
  IF w.ctx.current_state = "ROLLING" \/ w.ctx.current_state = "RESULTS"
    THEN w     \* ui_scroll_reset(), in ui.c
    ELSE w

state_handle_tap(w) == prv_set_skip_requested(w)

state_handle_select_long(w) ==
  IF w.ctx.current_state = "ROLLING" THEN prv_set_skip_requested(w)
  ELSE IF w.ctx.current_state = "PICK_DIE" \/ w.ctx.current_state = "PICK_COUNT"
         THEN prv_begin_quick_roll(w)
         ELSE IF model_has_groups(w.ctx.model) THEN prv_begin_roll(w)
                                               ELSE prv_begin_quick_roll(w)

-----------------------------------------------------------------------------
(* What the user does within the bounds *)

\* how many Down presses below D6 a kind is, around the wrap
KindDepth(index) == (DICE_KIND_D6 - index) % DICE_KIND_COUNT

\* 1d6 selected and in every group
AllDefault(m) ==
  /\ m.selected_die_index = DICE_KIND_D6
  /\ m.selected_count = 1
  /\ \A g \in 0..(m.group_count - 1) :
       m.groups[g].die_def_index = DICE_KIND_D6 /\ m.groups[g].count = 1

\* the dice the user rolls at once: MaxRollDice of D6, one of another kind
DiceBudget(m) == IF m.selected_die_index = DICE_KIND_D6 THEN MaxRollDice ELSE 1

UserMay(ev) ==
  LET m == s_ctx.model
      st == s_ctx.current_state
      total == model_roll_total_dice(m)
      full == m.group_count >= MAX_DICE_GROUPS
      budget == DiceBudget(m)
  IN CASE obs.popped -> FALSE
       [] st \in {"PICK_DIE", "PICK_COUNT", "ADD_GROUP_PROMPT"} /\ rolls >= MaxRolls -> FALSE
       [] st = "RESULTS" /\ ev \in {"up", "select_long"} -> rolls < MaxRolls
       [] ev = "up" /\ st = "PICK_DIE" ->
            m.groups = ZeroGroups /\ KindDepth(m.selected_die_index) > 0
       [] ev = "down" /\ st = "PICK_DIE" ->
            m.groups = ZeroGroups /\ KindDepth(m.selected_die_index) < MaxKindDown
       [] ev = "up" /\ st = "PICK_COUNT" ->
            \/ m.groups = ZeroGroups
            \/ IF full THEN m.selected_count < budget ELSE total + m.selected_count < budget
       [] ev = "select" /\ st = "PICK_COUNT" ->
            \/ m.groups = ZeroGroups
            \/ full \/ total + m.selected_count <= budget \/ AllDefault(m)
       [] ev = "back" /\ st = "PICK_COUNT" -> m.selected_count <= budget
       [] ev = "down" /\ st = "PICK_COUNT" ->
            m.groups = ZeroGroups \/ m.selected_count <= budget
       [] ev = "select_long" /\ st = "PICK_DIE" -> full \/ total + 1 <= budget
       [] ev = "select_long" /\ st = "PICK_COUNT" -> full \/ total + m.selected_count <= budget
       [] ev = "select_long" /\ st = "ADD_GROUP_PROMPT" -> total <= budget
       [] ev = "back" /\ st = "ADD_GROUP_PROMPT" ->
            total <= budget \/ m.group_count = 1
       [] ev = "down" /\ st = "ADD_GROUP_PROMPT" -> total <= budget
       [] OTHER -> TRUE

\* the values rand() returns during one handler: a skip draws once per die left
Rands == [1..(IF s_ctx.current_state = "ROLLING" THEN MaxRollDice ELSE 1) -> RandOutputs]

-----------------------------------------------------------------------------
(* The state machine *)

\* mlog before any call on mdl:
\*   active      model_begin_roll has been called
\*   vals        the values model_commit_roll_result stored since model_begin_roll
\*   commit_ret  the value the last model_commit_group call returned, if any
NoLog == [active |-> FALSE, vals |-> <<>>, commit_ret |-> <<>>]

\* the world a handler starts in
Enter(rnd) ==
  [ctx |-> s_ctx, anim |-> s_state, timers |-> timers, view |-> view,
   obs |-> obs, rc |-> roll_commits, rolls |-> rolls, rnd |-> rnd]

\* the world a handler leaves
Leave(w) ==
  /\ s_ctx' = w.ctx
  /\ s_state' = w.anim
  /\ timers' = w.timers
  /\ view' = w.view
  /\ obs' = w.obs
  /\ roll_commits' = w.rc
  /\ rolls' = w.rolls
  /\ UNCHANGED <<mdl, mlog>>

\* the world window_load leaves: state_init on zeroed statics
Loaded ==
  state_init([ctx |-> [initialized |-> FALSE], anim |-> roll_anim_init, timers |-> {},
              view |-> <<>>, obs |-> NoObs, rc |-> 0, rolls |-> 0, rnd |-> <<>>])

Init ==
  /\ s_ctx = Loaded.ctx
  /\ s_state = Loaded.anim
  /\ timers = Loaded.timers
  /\ view = Loaded.view
  /\ obs = Loaded.obs
  /\ roll_commits = Loaded.rc
  /\ rolls = Loaded.rolls
  /\ mdl = model_init
  /\ mlog = NoLog

Select ==
  /\ s_ctx.initialized /\ UserMay("select")
  /\ \E rnd \in Rands : Leave(state_handle_select(Enter(rnd)))

SelectLong ==
  /\ s_ctx.initialized /\ UserMay("select_long")
  /\ \E rnd \in Rands : Leave(state_handle_select_long(Enter(rnd)))

Back ==
  /\ s_ctx.initialized /\ UserMay("back")
  /\ \E rnd \in Rands : Leave(state_handle_back(Enter(rnd)))

Up ==
  /\ s_ctx.initialized /\ UserMay("up")
  /\ \E rnd \in Rands : Leave(state_handle_up(Enter(rnd)))

Down ==
  /\ s_ctx.initialized /\ UserMay("down")
  /\ Leave(state_handle_down(Enter(<<>>)))

DownLong ==
  /\ s_ctx.initialized /\ UserMay("down_long")
  /\ Leave(state_handle_down_long(Enter(<<>>)))

Tap ==
  /\ s_ctx.initialized /\ UserMay("tap")
  /\ \E rnd \in Rands : Leave(state_handle_tap(Enter(rnd)))

\* the timer service fires a timer of the animator: prv_timer_handler
AnimTimer ==
  \E t \in timers :
    /\ t.cb = "anim"
    /\ \E rnd \in Rands :
         Leave(prv_timer_handler([Enter(rnd) EXCEPT !.timers = @ \ {t}]))

\* the timer service fires the result-hold timer: prv_result_hold_timer_cb
HoldTimer ==
  \E t \in timers :
    /\ t.cb = "hold"
    /\ \E rnd \in Rands :
         Leave(prv_result_hold_timer_cb([Enter(rnd) EXCEPT !.timers = @ \ {t}]))

\* main.c, prv_window_unload
Deinit ==
  /\ s_ctx.initialized
  /\ Leave(state_deinit(Enter(<<>>)))

\* main.c, prv_window_load; state_init returns at once when already initialized
StateInit ==
  /\ ~s_ctx.initialized
  /\ Leave(state_init(Enter(<<>>)))

Next ==
  \/ Select
  \/ SelectLong
  \/ Back
  \/ Up
  \/ Down
  \/ DownLong
  \/ Tap
  \/ AnimTimer
  \/ HoldTimer
  \/ Deinit
  \/ StateInit

Spec == Init /\ [][Next]_vars

\* a timer with this callback is registered: what ENABLED of its firing amounts to
TimerArmed(cb) == \E t \in timers : t.cb = cb

\* The timer service fires every timer that stays registered: WF_vars(AnimTimer)
\* and WF_vars(HoldTimer), with ENABLED written as TimerArmed
TimersFire ==
  /\ ([]<>(~TimerArmed("anim"))) \/ ([]<><<AnimTimer>>_vars)
  /\ ([]<>(~TimerArmed("hold"))) \/ ([]<><<HoldTimer>>_vars)

SpecLive == Spec /\ TimersFire

-----------------------------------------------------------------------------
(* model.c driven directly: a model holding any list of committed groups;     *)
(* the selection is changed while no group is committed, groups are          *)
(* committed until model_begin_roll, then model_commit_roll_result           *)

ModelKinds == {DICE_KIND_D6, DICE_KIND_D100}
GroupPicks == ModelKinds \X (1..MaxModelCount)
GroupLists == UNION {[1..n -> GroupPicks] : n \in 0..MaxModelGroups}

RECURSIVE BuildModel(_, _)
\* model_init, then for each of the first n picks: select it and model_commit_group
BuildModel(picks, n) ==
  IF n = 0 THEN model_init
  ELSE LET m == BuildModel(picks, n - 1)
       IN model_commit_group([m EXCEPT !.selected_die_index = picks[n][1],
                                       !.selected_count = picks[n][2]])

InitModel ==
  /\ s_ctx = Loaded.ctx
  /\ s_state = Loaded.anim
  /\ timers = Loaded.timers
  /\ view = Loaded.view
  /\ obs = Loaded.obs
  /\ roll_commits = Loaded.rc
  /\ rolls = Loaded.rolls
  /\ \E picks \in GroupLists : mdl = BuildModel(picks, Len(picks))
  /\ mlog = NoLog

AppUnchanged == UNCHANGED <<s_ctx, s_state, timers, view, obs, roll_commits, rolls>>

MBeginRoll ==
  /\ model_roll_total_dice(mdl) <= MaxModelGroups * MaxModelCount
  /\ mdl' = model_begin_roll(mdl)
  /\ mlog' = [mlog EXCEPT !.active = TRUE, !.vals = <<>>]
  /\ AppUnchanged

\* the k-th call since model_begin_roll commits the value k
MCommitRoll ==
  /\ mlog.active
  /\ mdl' = model_commit_roll_result(mdl, Len(mlog.vals) + 1)
  /\ mlog' = IF model_has_roll_remaining(mdl)
               THEN [mlog EXCEPT !.vals = Append(@, Len(mlog.vals) + 1)]
               ELSE mlog
  /\ AppUnchanged

\* the deltas handed to model_increment_selected_die / _count
Deltas == (-MaxDelta)..MaxDelta

MIncDie(delta) ==
  /\ ~mlog.active /\ mdl.group_count = 0
  /\ mdl' = model_increment_selected_die(mdl, delta)
  /\ UNCHANGED mlog
  /\ AppUnchanged

MIncCount(delta) ==
  /\ ~mlog.active /\ mdl.group_count = 0
  /\ mdl' = model_increment_selected_count(mdl, delta)
  /\ UNCHANGED mlog
  /\ AppUnchanged

MCommitGroup ==
  /\ ~mlog.active
  /\ mdl' = model_commit_group(mdl)
  /\ mlog' = [mlog EXCEPT !.commit_ret = <<model_commit_group_ok(mdl)>>]
  /\ AppUnchanged

NextModel ==
  \/ \E delta \in Deltas : MIncDie(delta)
  \/ \E delta \in Deltas : MIncCount(delta)
  \/ MCommitGroup
  \/ MBeginRoll
  \/ MCommitRoll

SpecModel == InitModel /\ [][NextModel]_vars

-----------------------------------------------------------------------------
(* prv_normalize_roll_value driven directly: a roll of one die of any kind    *)
(* has begun, prv_prepare_roll_metadata has run for it, and raw samples are   *)
(* normalized one after the other                                             *)

AllKinds == 0..(DICE_KIND_COUNT - 1)

\* the world in which the die at mdl's roll cursor is about to animate
NormWorld == prv_prepare_roll_metadata([Loaded EXCEPT !.ctx.model = mdl])

\* the raw samples handed to prv_normalize_roll_value
RawValues == (-MaxRawBelow)..NormWorld.ctx.roll_range

InitNorm ==
  /\ s_ctx = Loaded.ctx
  /\ s_state = Loaded.anim
  /\ timers = Loaded.timers
  /\ view = Loaded.view
  /\ obs = Loaded.obs
  /\ roll_commits = Loaded.rc
  /\ rolls = Loaded.rolls
  /\ \E kind \in AllKinds :
       mdl = model_begin_roll(
               model_commit_group([model_init EXCEPT !.selected_die_index = kind]))
  /\ mlog = NoLog

\* mlog.vals holds the raw value and what prv_normalize_roll_value returned for it
Normalize(raw_value) ==
  /\ mlog' = [mlog EXCEPT !.vals = <<raw_value,
                                     prv_normalize_roll_value(NormWorld, raw_value)>>]
  /\ UNCHANGED mdl
  /\ AppUnchanged

NextNorm == \E raw_value \in RawValues : Normalize(raw_value)

SpecNorm == InitNorm /\ [][NextNorm]_vars

-----------------------------------------------------------------------------
(* Properties of a roll *)

Rolling == s_ctx.current_state = "ROLLING"
InResults == s_ctx.current_state = "RESULTS"
Configuring == s_ctx.current_state \in {"PICK_DIE", "PICK_COUNT", "ADD_GROUP_PROMPT"}
TotalDice == model_roll_total_dice(s_ctx.model)
CompletedDice == model_roll_completed_dice(s_ctx.model)

\* C1: every roll terminates.  While the app is loaded and its timers keep
\* firing, a state in ROLLING is followed by RESULTS (or by the window being
\* unloaded); and in RESULTS the roll cursor is exhausted, the completed dice
\* equal the total dice, and exactly one result was committed per die.
C1_RollTerminates ==
  /\ (Rolling /\ s_ctx.initialized) ~> (InResults \/ ~s_ctx.initialized)
  /\ [](InResults => /\ ~model_has_roll_remaining(s_ctx.model)
                     /\ CompletedDice = TotalDice
                     /\ roll_commits = TotalDice)

\* a roll of two dice that ran to RESULTS with both animations completing
C1_Witness ==
  /\ InResults
  /\ TotalDice = 2
  /\ roll_commits = 2
  /\ obs.starts = 2
  /\ obs.completes = 2

\* the displayed value set of a kind
DisplayedValues(kind) ==
  CASE kind = DICE_KIND_D4 -> 1..4
    [] kind = DICE_KIND_D6 -> 1..6
    [] kind = DICE_KIND_D8 -> 1..8
    [] kind = DICE_KIND_D10 -> 1..10
    [] kind = DICE_KIND_D12 -> 1..12
    [] kind = DICE_KIND_D20 -> 1..20
    [] kind = DICE_KIND_D100 -> {10 * t : t \in 0..9}
    [] kind = DICE_KIND_PERCENTILE -> 0..99
    [] OTHER -> {}

\* C2: in RESULTS every result of every committed group lies in the displayed
\* value set of the group's kind, whichever way each die was resolved.
C2_ResultsInDisplayedSet ==
  InResults =>
    \A g \in 0..(s_ctx.model.group_count - 1) :
      \A i \in 0..(s_ctx.model.groups[g].count - 1) :
        s_ctx.model.groups[g].results[i] \in DisplayedValues(s_ctx.model.groups[g].die_def_index)

\* a d100 whose animation completed on the highest face, shown as 90
C2_Witness ==
  /\ InResults
  /\ s_ctx.model.group_count = 1
  /\ s_ctx.model.groups[0].die_def_index = DICE_KIND_D100
  /\ s_ctx.model.groups[0].results[0] = 90
  /\ obs.completes = 1

\* a press or tap that requests a skip
SkipRequest == Rolling /\ (Select \/ SelectLong \/ Back \/ Tap)

\* C3: a skip requested in ROLLING ends the roll in RESULTS within the same
\* handler: the animator is not started again and is left stopped with no
\* timer, the only preview is the immediate sample of the die being animated,
\* and the results committed are exactly the dice that were still unresolved.
C3_SkipDuringRoll ==
  [][SkipRequest =>
       /\ InResults'
       /\ obs'.starts = obs.starts
       /\ obs'.previews = obs.previews + (IF s_state.running THEN 1 ELSE 0)
       /\ roll_commits' = roll_commits + (TotalDice - CompletedDice)
       /\ CompletedDice' = TotalDice
       /\ ~s_state'.running
       /\ timers' = {}]_vars

\* two dice, the skip requested while the first was animating: one animator
\* start, one completion callback, and two results committed
C3_Witness ==
  /\ InResults
  /\ TotalDice = 2
  /\ obs.starts = 1
  /\ obs.completes = 1
  /\ roll_commits = 2

\* C4: no stale timers.  Outside ROLLING nothing is registered and both
\* handles are clear; every registered timer is the one its owner's handle
\* names, so no handle was overwritten while its timer was still armed.
C4_NoStaleTimers ==
  /\ ~Rolling => /\ timers = {}
                 /\ s_state.timer = NULL
                 /\ s_ctx.result_hold_timer = NULL
                 /\ ~s_state.running
  /\ \A t \in timers : \/ t.cb = "anim" /\ t.id = s_state.timer
                       \/ t.cb = "hold" /\ t.id = s_ctx.result_hold_timer
  /\ Cardinality(timers) <= 1

\* RESULTS after the animator's timer and the result-hold timer both ran
C4_Witness ==
  /\ InResults
  /\ obs.completes >= 1
  /\ roll_commits = obs.completes
  /\ timers = {}

-----------------------------------------------------------------------------
(* Properties of a quick roll *)

\* the committed groups of a model: kinds and counts, in order
GroupList(m) ==
  [g \in 1..m.group_count |-> <<m.groups[g - 1].die_def_index, m.groups[g - 1].count>>]

\* C5: when the user leaves RESULTS after a quick roll, the committed groups
\* are again the list that was present when the quick roll was started (the
\* list prv_begin_quick_roll saved).
C5_QuickRollKeepsGroups ==
  [][(InResults /\ s_ctx.initialized /\ s_ctx.quick_roll_active
        /\ s_ctx'.current_state = "PICK_DIE")
       => GroupList(s_ctx'.model) = GroupList(s_ctx.saved_model)]_vars

\* C6: while a quick roll is in ROLLING the model holds one group, of the kind
\* that was selected and of count 1 or the in-progress count.
C6_QuickRollSingleGroup ==
  (Rolling /\ s_ctx.quick_roll_active) =>
    /\ s_ctx.model.group_count = 1
    /\ s_ctx.model.groups[0].die_def_index = s_ctx.saved_model.selected_die_index
    /\ s_ctx.model.groups[0].count \in {1, s_ctx.saved_model.selected_count}

\* C7 as stated: in RESULTS no snapshot remains and no quick roll is active.
C7_NoSnapshotInResults ==
  InResults => ~s_ctx.has_saved_model /\ ~s_ctx.quick_roll_active

\* C7: the snapshot is held from the start of a quick roll until Select or Back
\* leaves RESULTS.  A quick roll (a roll begun in PICK_DIE or PICK_COUNT, or
\* with no group committed) starts by saving the live model; the step
\* into RESULTS keeps the snapshot and both flags; leaving RESULTS restores
\* the snapshot's selection and drops the flags; while the user configures,
\* both flags are false.
C7_SnapshotUntilLeavingResults ==
  /\ [](Configuring => ~s_ctx.has_saved_model /\ ~s_ctx.quick_roll_active)
  /\ [][(Configuring /\ Rolling')
          => IF s_ctx.current_state # "ADD_GROUP_PROMPT" \/ ~model_has_groups(s_ctx.model)
               THEN /\ s_ctx'.quick_roll_active /\ s_ctx'.has_saved_model
                    /\ s_ctx'.saved_model = s_ctx.model
               ELSE ~s_ctx'.quick_roll_active /\ ~s_ctx'.has_saved_model]_vars
  /\ [][(Rolling /\ InResults')
          => /\ s_ctx'.quick_roll_active = s_ctx.quick_roll_active
             /\ s_ctx'.has_saved_model = s_ctx.has_saved_model
             /\ s_ctx'.saved_model = s_ctx.saved_model
             /\ s_ctx.quick_roll_active => s_ctx'.model # s_ctx.saved_model]_vars
  /\ [][(InResults /\ s_ctx.initialized /\ s_ctx.quick_roll_active /\ Configuring')
          => /\ ~s_ctx'.quick_roll_active /\ ~s_ctx'.has_saved_model
             /\ s_ctx'.model.selected_die_index = s_ctx.saved_model.selected_die_index]_vars

\* a quick roll showing its results with the snapshot still held
C7_Witness ==
  /\ InResults
  /\ s_ctx.quick_roll_active
  /\ s_ctx.has_saved_model
  /\ roll_commits = TotalDice

\* C8: Select-Hold in PICK_DIE or PICK_COUNT with MAX_DICE_GROUPS groups
\* committed leaves the model as it was, both quick-roll flags false, the app
\* state unchanged and no timer registered.
C8_QuickRollFailureRecovers ==
  [][(/\ s_ctx.current_state \in {"PICK_DIE", "PICK_COUNT"}
      /\ s_ctx.model.group_count >= MAX_DICE_GROUPS
      /\ SelectLong)
       => /\ s_ctx'.model = s_ctx.model
          /\ ~s_ctx'.quick_roll_active
          /\ ~s_ctx'.has_saved_model
          /\ s_ctx'.current_state = s_ctx.current_state
          /\ timers' = {}
          /\ ~s_state'.running]_vars

\* the snapshot of a full model is left behind only by a failed quick roll
C8_Witness ==
  /\ s_ctx.current_state \in {"PICK_DIE", "PICK_COUNT"}
  /\ s_ctx.model.group_count = MAX_DICE_GROUPS
  /\ s_ctx.saved_model = s_ctx.model
  /\ ~s_ctx.quick_roll_active
  /\ ~s_ctx.has_saved_model

-----------------------------------------------------------------------------
(* Properties of the roll cursor *)

\* C9: 0 <= roll_group_index <= group_count; while roll_group_index <
\* group_count, 0 <= roll_die_index < the count of the group in progress; and
\* roll_group_index = group_count exactly when every die is completed.
C9_RollCursor ==
  LET m == s_ctx.model
  IN /\ 0 <= m.roll_group_index /\ m.roll_group_index <= m.group_count
     /\ m.roll_group_index < m.group_count =>
          0 <= m.roll_die_index /\ m.roll_die_index < m.groups[m.roll_group_index].count
     /\ (m.roll_group_index = m.group_count) <=> (CompletedDice = TotalDice)

\* the second of two groups is being rolled
C9_Witness ==
  /\ Rolling
  /\ s_ctx.model.group_count = 2
  /\ s_ctx.model.roll_group_index = 1
  /\ roll_commits = 1

RECURSIVE SlotsOf(_, _)
\* the die slots of groups[0..n-1], in group order then die order
SlotsOf(m, n) ==
  IF n = 0 THEN <<>>
  ELSE SlotsOf(m, n - 1) \o [i \in 1..m.groups[n - 1].count |-> m.groups[n - 1].results[i - 1]]

\* C10: after model_begin_roll, the k-th call of model_commit_roll_result
\* writes its value into the k-th die slot, in group order then die order; the
\* slots not yet reached and the entries past each group's count stay 0; the
\* roll has dice remaining exactly until model_roll_total_dice calls were made,
\* when the completed dice equal the total; and a call after that changes
\* nothing.
C10_CommitFillsSlotsInOrder ==
  /\ [](mlog.active =>
          LET slots == SlotsOf(mdl, mdl.group_count)
              k == Len(mlog.vals)
          IN /\ Len(slots) = model_roll_total_dice(mdl)
             /\ k = model_roll_completed_dice(mdl)
             /\ \A j \in 1..Len(slots) : slots[j] = IF j <= k THEN mlog.vals[j] ELSE 0
             /\ model_has_roll_remaining(mdl) <=> k < model_roll_total_dice(mdl)
             /\ \A g \in 0..(mdl.group_count - 1) :
                  \A i \in mdl.groups[g].count..(MAX_RESULTS_PER_GROUP - 1) :
                    mdl.groups[g].results[i] = 0)
  /\ [][(mlog.active /\ ~model_has_roll_remaining(mdl) /\ MCommitRoll) => mdl' = mdl]_vars

\* a group of two dice and a second group, rolled to completion in three calls
C10_Witness ==
  /\ mlog.active
  /\ mdl.group_count = 2
  /\ mdl.groups[0].count = 2
  /\ Len(mlog.vals) = 3
  /\ ~model_has_roll_remaining(mdl)

-----------------------------------------------------------------------------
(* Properties of model.c *)

\* C11: model_commit_group with fewer than MAX_DICE_GROUPS groups returns
\* true and appends a group of the selected kind and count with zeroed
\* results, changing nothing else; with MAX_DICE_GROUPS groups it returns
\* false and leaves the model unchanged; so counting from the empty model the
\* first MAX_DICE_GROUPS calls succeed and the next one fails.
C11_CommitGroupUpToCapacity ==
  /\ [](mdl.group_count >= 0 /\ mdl.group_count <= MAX_DICE_GROUPS)
  /\ [][MCommitGroup =>
          IF mdl.group_count < MAX_DICE_GROUPS
            THEN /\ mlog'.commit_ret = <<TRUE>>
                 /\ mdl'.group_count = mdl.group_count + 1
                 /\ mdl'.groups[mdl.group_count].die_def_index = mdl.selected_die_index
                 /\ mdl'.groups[mdl.group_count].count = mdl.selected_count
                 /\ mdl'.groups[mdl.group_count].results = ZeroResults
                 /\ \A g \in DOMAIN mdl.groups :
                      g # mdl.group_count => mdl'.groups[g] = mdl.groups[g]
                 /\ mdl' = [mdl EXCEPT !.group_count = mdl'.group_count,
                                       !.groups = mdl'.groups]
            ELSE /\ mlog'.commit_ret = <<FALSE>>
                 /\ mdl' = mdl]_vars

\* the empty model with 2d8 selected, committed MAX_DICE_GROUPS times, and the
\* call after those refused
C11_Witness ==
  /\ mdl.group_count = MAX_DICE_GROUPS
  /\ mlog.commit_ret = <<FALSE>>
  /\ \A g \in 0..(MAX_DICE_GROUPS - 1) :
       mdl.groups[g].die_def_index = DICE_KIND_D8 /\ mdl.groups[g].count = 2

\* C12: selected_count stays in [1, MAX_DICE_PER_GROUP]; a call of
\* model_increment_selected_count moves it by delta and clamps at either end,
\* so it stays at MAX_DICE_PER_GROUP when incremented there and at 1 when
\* decremented there, and never wraps.
C12_SelectedCountClamps ==
  /\ [](mdl.selected_count >= 1 /\ mdl.selected_count <= MAX_DICE_PER_GROUP)
  /\ [][\A delta \in Deltas :
          MIncCount(delta) =>
            LET moved == mdl.selected_count + delta
            IN mdl'.selected_count =
                 IF moved < 1 THEN 1
                 ELSE IF moved > MAX_DICE_PER_GROUP THEN MAX_DICE_PER_GROUP ELSE moved]_vars

\* the count raised to its maximum on the empty model
C12_Witness ==
  /\ mdl.group_count = 0
  /\ ~mlog.active
  /\ mdl.selected_count = MAX_DICE_PER_GROUP

\* C13: after any calls of model_increment_selected_die the selected index is
\* a valid kind, 0 .. DICE_KIND_COUNT-1.
C13_SelectedKindValid ==
  mdl.selected_die_index >= 0 /\ mdl.selected_die_index <= DICE_KIND_COUNT - 1

\* C14: model_begin_roll zeroes every result of every committed group and puts
\* the cursor at (0,0), so no die is completed and, with a group committed,
\* dice remain; the group count, the kinds and counts of the groups and the
\* selection are unchanged.
C14_BeginRollResets ==
  [][MBeginRoll =>
       /\ \A g \in 0..(mdl.group_count - 1) : mdl'.groups[g].results = ZeroResults
       /\ mdl'.roll_group_index = 0 /\ mdl'.roll_die_index = 0
       /\ model_roll_completed_dice(mdl') = 0
       /\ model_has_groups(mdl) => model_has_roll_remaining(mdl')
       /\ mdl'.group_count = mdl.group_count
       /\ GroupList(mdl') = GroupList(mdl)
       /\ mdl'.selected_die_index = mdl.selected_die_index
       /\ mdl'.selected_count = mdl.selected_count]_vars

\* model_begin_roll called again on two groups after a roll of theirs ended
C14_Witness ==
  /\ mlog.active
  /\ mlog.vals = <<>>
  /\ mdl.group_count = 2
  /\ model_roll_completed_dice(mdl) = 0
  /\ mdl.groups[0].results = ZeroResults
  /\ model_has_roll_remaining(mdl)

-----------------------------------------------------------------------------
(* Properties of the normalization *)

\* C15: for every kind and every raw sample v in [1, roll range of the kind], the
\* normalized value is v for a kind that is not zero-based, v - 1 for a zero-based
\* kind without tens mode, and (v - 1) * 10 for the zero-based tens-mode kind,
\* which is d100 with range 10, so that 1..10 maps onto exactly {0, 10, ..., 90};
\* a raw value <= 0 normalizes to 0.
C15_Normalization ==
  /\ mlog.vals # <<>> =>
       LET kind == model_current_roll_kind(mdl)
           v == mlog.vals[1]
           value == mlog.vals[2]
       IN /\ v <= 0 => value = 0
          /\ v \in 1..model_current_roll_range(mdl) =>
               value = IF ~model_kind_zero_based(kind) THEN v
                       ELSE IF ~model_kind_tens_mode(kind) THEN v - 1
                       ELSE (v - 1) * 10
  /\ \A kind \in AllKinds :
       (model_kind_zero_based(kind) /\ model_kind_tens_mode(kind)) <=> kind = DICE_KIND_D100
  /\ model_current_roll_kind(mdl) = DICE_KIND_D100 =>
       /\ model_current_roll_range(mdl) = 10
       /\ {prv_normalize_roll_value(NormWorld, v) : v \in 1..10} = {10 * i : i \in 0..9}

\* the top raw value of d100 has been normalized to 90
C15_Witness ==
  /\ model_current_roll_kind(mdl) = DICE_KIND_D100
  /\ mlog.vals = <<10, 90>>

-----------------------------------------------------------------------------
(* Properties of the animator *)

\* C16: one completion per animation.  While the program is initialized, the
\* starts since prv_begin_roll are the completion callbacks plus the animation
\* in progress; the animator runs exactly while its timer is armed; a
\* completion callback fires once in a step, only at Hold expiry or in a skip,
\* and leaves the animator idle with no timer; while idle no preview or
\* completion fires; and every animation stops running (its completion, or
\* roll_anim_deinit).
C16_OneCompletionPerStart ==
  /\ [](s_ctx.initialized =>
          obs.starts = obs.completes + (IF s_state.running THEN 1 ELSE 0))
  /\ [](s_state.running <=> TimerArmed("anim"))
  /\ [](~s_state.running => s_state.timer = NULL)
  /\ [][(s_ctx.initialized /\ s_ctx'.initialized /\ obs'.completes > obs.completes) =>
          /\ obs'.completes = obs.completes + 1
          /\ obs'.starts = obs.starts
          /\ s_state.running
          /\ ~s_state'.running
          /\ s_state'.timer = NULL
          /\ \A t \in timers' : t.cb # "anim"
          /\ (AnimTimer /\ s_state.in_hold_stage) \/ SkipRequest]_vars
  /\ [][(s_ctx.initialized /\ s_ctx'.initialized /\ ~s_state.running) =>
          /\ obs'.previews \in {obs.previews, 0}
          /\ obs'.completes \in {obs.completes, 0}]_vars
  /\ (s_state.running ~> ~s_state.running)

\* the first die's animation ran to Hold expiry: one start, one completion, the
\* animator idle while the result-hold timer runs
C16_Witness ==
  /\ s_ctx.initialized
  /\ Rolling
  /\ obs.starts = 1
  /\ obs.completes = 1
  /\ ~s_state.running
  /\ s_state.elapsed_ms = s_state.total_duration_ms
  /\ TimerArmed("hold")

\* C17: roll_anim_skip.  A skip request while the animator runs (whatever its
\* stage) cancels the animator's timer and, in the same handler, invokes the
\* preview callback and then the completion callback with one value sampled in
\* [1, sides]; the animator is left idle with its handle cleared.  On an
\* animator that is not running the call invokes nothing and changes nothing.
C17_SkipContract ==
  /\ [][(SkipRequest /\ s_state.running) =>
          /\ \A t \in timers' : t.cb # "anim" /\ t.id # s_state.timer
          /\ \E v \in 1..s_state.sides :
               obs'.last = << <<"on_preview", v>>, <<"on_complete", v>> >>
          /\ obs'.previews = obs.previews + 1
          /\ obs'.completes = obs.completes + 1
          /\ ~s_state'.running
          /\ s_state'.timer = NULL]_vars
  /\ [](~s_state.running => \A rnd \in Rands : roll_anim_skip(Enter(rnd)) = Enter(rnd))

\* a skip taken in the Hold stage, after the last settle tick had already
\* chosen the pending value
C17_Witness ==
  /\ InResults
  /\ ~s_state.running
  /\ s_state.in_hold_stage
  /\ s_state.has_pending_value
  /\ obs.completes = 1
  /\ Len(obs.last) = 2
  /\ obs.last[1][1] = "on_preview"
  /\ obs.last[2][1] = "on_complete"

\* what roll_anim_progress_per_mille returns in the current state
Progress == roll_anim_progress_per_mille(Enter(<<>>))

\* C18: roll_anim_progress_per_mille is always in [0, 1000]; over a step in
\* which no animation starts it does not decrease; and it is 1000 once the
\* animation has completed, at Hold expiry or by a skip, until the next start.
C18_ProgressMonotonic ==
  /\ [](Progress \in 0..1000)
  /\ [][(obs'.starts = obs.starts /\ rolls' = rolls) => Progress' >= Progress]_vars
  /\ [][obs'.completes = obs.completes + 1 => Progress' = 1000]_vars
  /\ []((~s_state.running /\ obs.completes >= 1 /\ obs.starts = obs.completes) =>
          Progress = 1000)

\* two dice, both animations run to Hold expiry
C18_Witness ==
  /\ obs.starts = 2
  /\ obs.completes = 2
  /\ ~s_state.running
  /\ ~s_state.in_hold_stage
  /\ s_state.has_pending_value
  /\ Progress = 1000

-----------------------------------------------------------------------------
(* Properties of the result hold *)

\* C19: result hold.  When an animation completes at Hold expiry, the result
\* is committed and the result-hold timer is armed for RESULT_HOLD_MS, with
\* the state still ROLLING and no animator started; while that timer is armed
\* the animator is idle, and the next animator start or the change to RESULTS
\* happens only when the timer fires or a skip is requested.  The last die of
\* the roll is held in the same way.
C19_ResultHold ==
  /\ [][(AnimTimer /\ obs'.completes = obs.completes + 1) =>
          /\ roll_commits' = roll_commits + 1
          /\ CompletedDice' = CompletedDice + 1
          /\ Rolling'
          /\ ~s_ctx'.skip_requested
          /\ \E t \in timers' : /\ t.cb = "hold"
                                /\ t.ms = RESULT_HOLD_MS
                                /\ t.id = s_ctx'.result_hold_timer
          /\ ~s_state'.running
          /\ obs'.starts = obs.starts]_vars
  /\ [](TimerArmed("hold") => Rolling /\ ~s_state.running)
  /\ [][(TimerArmed("hold") /\ (obs'.starts # obs.starts \/ ~Rolling')) =>
          HoldTimer \/ SkipRequest]_vars
  /\ [][(TimerArmed("hold") /\ ~TimerArmed("hold")') =>
          HoldTimer \/ SkipRequest \/ Deinit]_vars

\* the last die of a two-dice roll has been committed at Hold expiry and the
\* roll is still in ROLLING, waiting for the result-hold timer
C19_Witness ==
  /\ Rolling
  /\ TimerArmed("hold")
  /\ TotalDice = 2
  /\ CompletedDice = 2
  /\ obs.completes = 2
  /\ ~model_has_roll_remaining(s_ctx.model)

-----------------------------------------------------------------------------
(* Properties of the preview *)

\* C20: the preview callback is cosmetic.  A tick of the animator that
\* previews a value changes, of the whole of s_ctx (the DiceModel with its
\* groups, results, selection and roll cursor, the saved model, the app state,
\* the skip and quick-roll flags, the result-hold handle), only rolling_value,
\* which becomes a displayed value of the die's kind and is what the snapshot
\* handed to the UI shows; no result is committed.  prv_anim_preview itself,
\* applied to any value of the die in any state where the animator runs,
\* changes nothing but rolling_value, the snapshot and the record of the call.
C20_PreviewCosmetic ==
  /\ [][(AnimTimer /\ obs'.previews = obs.previews + 1 /\ obs'.completes = obs.completes) =>
          /\ s_ctx' = [s_ctx EXCEPT !.rolling_value = s_ctx'.rolling_value]
          /\ s_ctx'.rolling_value \in DisplayedValues(s_ctx.roll_kind)
          /\ view'.rolling_value = s_ctx'.rolling_value
          /\ view'.state = "ROLLING"
          /\ roll_commits' = roll_commits]_vars
  /\ [](s_state.running =>
          \A value \in 1..s_state.sides :
            LET w == Enter(<<>>)
                w1 == prv_anim_preview(w, value)
            IN /\ w1.ctx = [w.ctx EXCEPT !.rolling_value = prv_normalize_roll_value(w, value)]
               /\ w1.anim = w.anim
               /\ w1.timers = w.timers
               /\ w1.rc = w.rc
               /\ w1.rolls = w.rolls
               /\ w1.view.rolling_value = w1.ctx.rolling_value)

\* a preview is on display for the second die while the first die's result
\* is in the model
C20_Witness ==
  /\ Rolling
  /\ s_state.running
  /\ obs.previews >= 1
  /\ CompletedDice = 1
  /\ roll_commits = 1
  /\ s_ctx.rolling_value >= 0
  /\ view.rolling_value = s_ctx.rolling_value

-----------------------------------------------------------------------------
(* Properties of the transition table *)

\* C21: the ROLLING row.  In ROLLING, Select, Select-Hold, Back and Tap each do
\* exactly what prv_set_skip_requested does, which sets the skip going (the
\* roll is in RESULTS when the handler returns); Up changes nothing at all;
\* Down calls ui_scroll_step and changes nothing of the state, the model, the
\* skip flag or the timers.  Tap in any other state changes nothing.
C21_RollingRow ==
  s_ctx.initialized =>
    \A rnd \in Rands :
      LET w == Enter(rnd)
          skip == prv_set_skip_requested(w)
      IN IF Rolling
           THEN /\ state_handle_select(w) = skip
                /\ state_handle_select_long(w) = skip
                /\ state_handle_back(w) = skip
                /\ state_handle_tap(w) = skip
                /\ skip.ctx.current_state = "RESULTS"
                /\ skip.rc = w.rc + (TotalDice - CompletedDice)
                /\ state_handle_up(w) = w
                /\ state_handle_down(w) = w
                /\ state_handle_down_scrolls(w)
           ELSE state_handle_tap(w) = w

\* ROLLING in the final settle of an animation, where any of the six inputs
\* may arrive
C21_Witness ==
  /\ s_ctx.initialized
  /\ Rolling
  /\ s_state.running
  /\ s_state.in_final_stage
  /\ ~s_state.in_hold_stage
  /\ s_state.final_tick_count = 1

\* C22: RESULTS goes back to PICK_DIE.  In RESULTS, Select and Back do the
\* same thing: a saved quick-roll model is restored (what survives of it is its
\* selected kind; both quick-roll flags are cleared), all groups are cleared,
\* the roll cursor is (0,0), selected_count is 1 and the state is PICK_DIE.
\* No input in RESULTS leads to PICK_COUNT or ADD_GROUP_PROMPT.
C22_ResultsToPickDie ==
  /\ []((s_ctx.initialized /\ InResults) =>
          \A rnd \in Rands : state_handle_select(Enter(rnd)) = state_handle_back(Enter(rnd)))
  /\ [][(s_ctx.initialized /\ InResults /\ (Select \/ Back)) =>
          /\ s_ctx'.current_state = "PICK_DIE"
          /\ s_ctx'.model.group_count = 0
          /\ s_ctx'.model.groups = ZeroGroups
          /\ s_ctx'.model.roll_group_index = 0
          /\ s_ctx'.model.roll_die_index = 0
          /\ s_ctx'.model.selected_count = 1
          /\ s_ctx'.model.selected_die_index =
               IF s_ctx.quick_roll_active /\ s_ctx.has_saved_model
                 THEN s_ctx.saved_model.selected_die_index
                 ELSE s_ctx.model.selected_die_index
          /\ ~s_ctx'.quick_roll_active
          /\ ~s_ctx'.has_saved_model
          /\ view'.state = "PICK_DIE"]_vars
  /\ [][(s_ctx.initialized /\ InResults) =>
          s_ctx'.current_state \in {"RESULTS", "PICK_DIE", "ROLLING"}]_vars

\* PICK_DIE entered from RESULTS: a roll has been made since state_init and
\* nothing is left of its groups
C22_Witness ==
  /\ s_ctx.initialized
  /\ s_ctx.current_state = "PICK_DIE"
  /\ rolls = 1
  /\ s_ctx.model.group_count = 0
  /\ s_ctx.model.groups = ZeroGroups
  /\ s_ctx.model.selected_die_index # DICE_KIND_D6

InPrompt == s_ctx.current_state = "ADD_GROUP_PROMPT"

\* C23: confirm-clear.  In ADD_GROUP_PROMPT with a group, Down arms the prompt
\* and changes nothing else; Down while armed is a no-op; Select while armed
\* clears all groups, disarms the prompt and goes to PICK_DIE; Select while
\* not armed goes to PICK_DIE with the model as it was.  The groups are wiped
\* in a step out of ADD_GROUP_PROMPT only by Select with the prompt armed.
C23_ConfirmClear ==
  /\ [][(s_ctx.initialized /\ InPrompt /\ model_has_groups(s_ctx.model)
            /\ ~s_ctx.confirm_clear_prompt /\ Down) =>
          /\ s_ctx' = [s_ctx EXCEPT !.confirm_clear_prompt = TRUE]
          /\ view'.confirm_clear_prompt
          /\ view'.hint_bottom = HINT_CONFIRM]_vars
  /\ []((s_ctx.initialized /\ InPrompt /\ s_ctx.confirm_clear_prompt) =>
          state_handle_down(Enter(<<>>)) = Enter(<<>>))
  /\ [][(s_ctx.initialized /\ InPrompt /\ s_ctx.confirm_clear_prompt /\ Select) =>
          /\ s_ctx'.model.group_count = 0
          /\ s_ctx'.model.groups = ZeroGroups
          /\ ~s_ctx'.confirm_clear_prompt
          /\ s_ctx'.current_state = "PICK_DIE"]_vars
  /\ [][(s_ctx.initialized /\ InPrompt /\ ~s_ctx.confirm_clear_prompt /\ Select) =>
          /\ s_ctx'.model = s_ctx.model
          /\ s_ctx'.current_state = "PICK_DIE"]_vars
  /\ [][(s_ctx.initialized /\ s_ctx'.initialized /\ InPrompt
            /\ model_has_groups(s_ctx.model)
            /\ (s_ctx'.model.groups = ZeroGroups
                   \/ (s_ctx'.current_state = "PICK_DIE" /\ ~model_has_groups(s_ctx'.model)))) =>
          s_ctx.confirm_clear_prompt /\ Select]_vars

\* the prompt armed over two committed groups
C23_Witness ==
  /\ s_ctx.initialized
  /\ InPrompt
  /\ s_ctx.confirm_clear_prompt
  /\ s_ctx.model.group_count = 2
  /\ view.confirm_clear_prompt
  /\ view.hint_bottom = HINT_CONFIRM

InPickDie == s_ctx.current_state = "PICK_DIE"

\* C25: Back in PICK_DIE.  With no group it calls window_stack_pop and changes
\* nothing of the core: s_ctx (state, model, flags), the animator, the timers
\* and the snapshot are as before.  With a group it goes to ADD_GROUP_PROMPT,
\* the model and everything else in s_ctx unchanged, and pops nothing.
C25_BackInPickDie ==
  /\ [][(s_ctx.initialized /\ InPickDie /\ ~model_has_groups(s_ctx.model) /\ Back) =>
          /\ obs'.popped
          /\ UNCHANGED <<s_ctx, s_state, timers, view, roll_commits>>]_vars
  /\ [][(s_ctx.initialized /\ InPickDie /\ model_has_groups(s_ctx.model) /\ Back) =>
          /\ s_ctx' = [s_ctx EXCEPT !.current_state = "ADD_GROUP_PROMPT"]
          /\ view'.state = "ADD_GROUP_PROMPT"
          /\ ~obs'.popped
          /\ UNCHANGED <<s_state, timers>>]_vars

\* the pop has been requested from PICK_DIE with d4 selected and no group
C25_Witness ==
  /\ s_ctx.initialized
  /\ InPickDie
  /\ obs.popped
  /\ s_ctx.model.group_count = 0
  /\ s_ctx.model.selected_die_index = DICE_KIND_D4

InPickCount == s_ctx.current_state = "PICK_COUNT"

\* C26: Select in PICK_COUNT.  With MAX_DICE_GROUPS groups committed the
\* handler changes nothing: the state stays PICK_COUNT and the model is as it
\* was.  Below capacity it appends exactly one group, of the selected kind and
\* count, resets selected_count to 1 and goes to ADD_GROUP_PROMPT.
C26_SelectInPickCount ==
  /\ []((s_ctx.initialized /\ InPickCount /\ s_ctx.model.group_count >= MAX_DICE_GROUPS) =>
          \A rnd \in Rands : state_handle_select(Enter(rnd)) = Enter(rnd))
  /\ [][(s_ctx.initialized /\ InPickCount
            /\ s_ctx.model.group_count < MAX_DICE_GROUPS /\ Select) =>
          LET m == s_ctx.model
          IN /\ s_ctx'.model.group_count = m.group_count + 1
             /\ s_ctx'.model.groups =
                  [m.groups EXCEPT ![m.group_count] =
                     [die_def_index |-> m.selected_die_index,
                      sides |-> model_get_selected_sides(m),
                      count |-> m.selected_count,
                      results |-> ZeroResults]]
             /\ s_ctx'.model.selected_die_index = m.selected_die_index
             /\ s_ctx'.model.selected_count = 1
             /\ s_ctx'.current_state = "ADD_GROUP_PROMPT"]_vars

\* the count picker over a full model, where Select has no effect
C26_Witness ==
  /\ s_ctx.initialized
  /\ InPickCount
  /\ s_ctx.model.group_count = MAX_DICE_GROUPS
  /\ view.state = "PICK_COUNT"
  /\ ~s_ctx.quick_roll_active

-----------------------------------------------------------------------------
(* Properties of the lifecycle *)

\* C27: teardown.  state_deinit, from any state, leaves no timer armed, both
\* handles clear and the animator stopped; once torn down, nothing happens
\* (no animator or result-hold callback) until state_init.  state_init on an
\* initialized program changes nothing; state_init after state_deinit leaves
\* PICK_DIE with an empty model, d6 and count 1 selected.
C27_Teardown ==
  /\ [][Deinit =>
          /\ ~s_ctx'.initialized
          /\ timers' = {}
          /\ s_state'.timer = NULL
          /\ s_ctx'.result_hold_timer = NULL
          /\ ~s_state'.running]_vars
  /\ [](~s_ctx.initialized => timers = {})
  /\ [][~s_ctx.initialized =>
          /\ StateInit
          /\ obs'.previews = 0
          /\ obs'.completes = 0]_vars
  /\ [](s_ctx.initialized => state_init(Enter(<<>>)) = Enter(<<>>))
  /\ [][StateInit =>
          /\ s_ctx'.initialized
          /\ s_ctx'.current_state = "PICK_DIE"
          /\ s_ctx'.model.group_count = 0
          /\ s_ctx'.model.groups = ZeroGroups
          /\ s_ctx'.model.selected_die_index = DICE_KIND_D6
          /\ s_ctx'.model.selected_count = 1
          /\ s_ctx'.model.roll_group_index = 0
          /\ s_ctx'.model.roll_die_index = 0
          /\ ~s_ctx'.skip_requested
          /\ ~s_ctx'.quick_roll_active
          /\ ~s_ctx'.has_saved_model
          /\ ~s_state'.running
          /\ timers' = {}
          /\ view'.state = "PICK_DIE"]_vars

\* torn down in the middle of an animation: the animator stopped part-way
\* with a die still to roll, and no timer left
C27_Witness ==
  /\ ~s_ctx.initialized
  /\ Rolling
  /\ s_state.elapsed_ms > 0
  /\ s_state.elapsed_ms < s_state.total_duration_ms
  /\ model_has_roll_remaining(s_ctx.model)
  /\ timers = {}

-----------------------------------------------------------------------------
(* Properties of the render snapshot *)

\* C28: the snapshot follows the state.  Whenever a handler or a timer
\* callback has returned, the snapshot most recently handed to ui_render shows
\* the current app state and the current confirm_clear_prompt flag; so every
\* step that changes either of them has emitted a snapshot showing the new one.
C28_SnapshotShowsState ==
  /\ [](/\ view.state = s_ctx.current_state
        /\ view.confirm_clear_prompt = s_ctx.confirm_clear_prompt)
  /\ [][(s_ctx'.current_state # s_ctx.current_state
            \/ s_ctx'.confirm_clear_prompt # s_ctx.confirm_clear_prompt) =>
          /\ view' # view
          /\ view'.state = s_ctx'.current_state
          /\ view'.confirm_clear_prompt = s_ctx'.confirm_clear_prompt]_vars

\* a quick roll has reached RESULTS and the snapshot shows RESULTS with its
\* hints
C28_Witness ==
  /\ s_ctx.initialized
  /\ InResults
  /\ s_ctx.quick_roll_active
  /\ view.state = "RESULTS"
  /\ view.hint_middle = HINT_SELECT_HOLD_ROLL
  /\ ~view.confirm_clear_prompt

\* C29: the snapshot follows the rolling value.  Whenever a handler or a timer
\* callback has returned, the rolling value of the snapshot most recently
\* handed to ui_render is the current rolling_value, the sentinel -1 that
\* prv_start_next_die writes before the next die animates included.
C29_SnapshotShowsRollingValue ==
  s_ctx.initialized => view.rolling_value = s_ctx.rolling_value

-----------------------------------------------------------------------------
(* Properties of a skip *)

\* C30: a skip finishes the roll inside its handler.  When Select, Select-Hold,
\* Back or Tap is handled in ROLLING, whichever timer is pending (an animator
\* tick, the animator's Hold, or the result hold), then when the handler
\* returns that timer is gone and none is armed, both handles are clear,
\* every die of the roll has its result, the state is RESULTS and
\* skip_requested is false again.  skip_requested is false in every state
\* between handlers.
C30_SkipFinishesInHandler ==
  /\ [](~s_ctx.skip_requested)
  /\ [](Rolling /\ s_ctx.initialized => Cardinality(timers) = 1)
  /\ [][SkipRequest =>
          /\ timers # {}
          /\ timers' = {}
          /\ s_state'.timer = NULL
          /\ s_ctx'.result_hold_timer = NULL
          /\ ~s_state'.running
          /\ ~model_has_roll_remaining(s_ctx'.model)
          /\ model_roll_completed_dice(s_ctx'.model) = model_roll_total_dice(s_ctx.model)
          /\ s_ctx'.model.group_count = s_ctx.model.group_count
          /\ s_ctx'.current_state = "RESULTS"
          /\ view'.state = "RESULTS"
          /\ ~s_ctx'.skip_requested]_vars

\* RESULTS after a skip taken while the result-hold timer of the first of two
\* dice was pending: the animator completed once, at Hold expiry, and the
\* second die was committed without it
C30_Witness ==
  /\ InResults
  /\ TotalDice = 2
  /\ obs.starts = 1
  /\ obs.completes = 1
  /\ roll_commits = 2
  /\ s_state.has_pending_value
  /\ ~s_state.in_hold_stage
  /\ ~s_ctx.skip_requested

-----------------------------------------------------------------------------
(* Properties of the animator's phases *)

\* the phase of the animator: main stage 0, 1, 2, final settle (3), Hold (4),
\* idle (5)
AnimPhase ==
  IF ~s_state.running THEN 5
  ELSE IF s_state.in_hold_stage THEN 4
  ELSE IF s_state.in_final_stage THEN 3
  ELSE s_state.stage_index

\* C31: phases and tick budget.  A tick of a running animation keeps the phase
\* or moves it to the next one, in the order main stage 0, 1, 2, final settle,
\* Hold, idle (a skip goes straight to idle).  Main stage i delivers exactly
\* max(1, duration_i / step_i) previews, which is 17, 7 and 2; the final
\* settle delivers exactly final_tick_target previews, with the target 3 or 4
\* and a tick every 1500 / target ms, never 0; Hold delivers no preview, and
\* its expiry completes with the value of the last final-settle preview.
C31_PhasesAndTicks ==
  /\ [](\A i \in 0..2 :
          /\ <<17, 7, 2>>[i + 1] = prv_stage_tick_limit(i)
          /\ LET q == s_main_stages[i].duration_ms \div s_main_stages[i].step_ms
             IN <<17, 7, 2>>[i + 1] = IF q < 1 THEN 1 ELSE q)
  /\ [](s_state.running =>
          /\ s_state.final_tick_target \in 3..4
          /\ s_state.final_tick_interval_ms = 1500 \div s_state.final_tick_target
          /\ s_state.final_tick_interval_ms > 0
          /\ AnimPhase \in 0..4
          /\ AnimPhase \in 0..2 =>
               /\ s_state.stage_tick_limit = <<17, 7, 2>>[AnimPhase + 1]
               /\ s_state.stage_tick \in 0..(<<17, 7, 2>>[AnimPhase + 1] - 1)
               /\ obs.previews = <<0, 17, 24>>[AnimPhase + 1] + s_state.stage_tick
               /\ \A t \in timers : t.ms = s_main_stages[AnimPhase].step_ms
          /\ AnimPhase = 3 =>
               /\ s_state.final_tick_count \in 0..(s_state.final_tick_target - 1)
               /\ obs.previews = 26 + s_state.final_tick_count
               /\ \A t \in timers : t.ms = s_state.final_tick_interval_ms
          /\ AnimPhase = 4 =>
               /\ s_state.final_tick_count = s_state.final_tick_target
               /\ obs.previews = 26 + s_state.final_tick_target
               /\ s_state.has_pending_value
               /\ obs.last[2] = <<"on_preview", s_state.pending_final_value>>
               /\ \A t \in timers : t.ms = s_final_hold_ms)
  /\ [][(AnimTimer /\ s_state.running) =>
          /\ AnimPhase' \in {AnimPhase, AnimPhase + 1}
          /\ AnimPhase \in 0..3 => /\ obs'.previews = obs.previews + 1
                                   /\ obs'.completes = obs.completes
          /\ AnimPhase = 4 =>
               /\ AnimPhase' = 5
               /\ obs'.previews = obs.previews
               /\ obs'.completes = obs.completes + 1
               /\ obs'.last = << <<"on_preview", s_state.pending_final_value>>,
                                 <<"on_complete", s_state.pending_final_value>> >>]_vars
  /\ [][(s_state.running /\ obs'.starts = obs.starts /\ rolls' = rolls) =>
          AnimPhase' >= AnimPhase]_vars

\* Hold after a final settle of four ticks: 17 + 7 + 2 + 4 previews
C31_Witness ==
  /\ s_state.running
  /\ s_state.in_hold_stage
  /\ s_state.final_tick_target = 4
  /\ s_state.final_tick_interval_ms = 375
  /\ obs.previews = 30

\* C32: in ROLLING, between handlers (state_init has run and state_deinit has
\* not), exactly one timer is armed: the animator's timer while the animator
\* runs, the result-hold timer while it is idle; never both and never neither.
C32_OneTimerInRolling ==
  (Rolling /\ s_ctx.initialized) =>
    /\ Cardinality(timers) = 1
    /\ s_state.running <=> TimerArmed("anim")
    /\ ~s_state.running <=> TimerArmed("hold")
    /\ TimerArmed("anim") <=> s_state.timer # NULL
    /\ TimerArmed("hold") <=> s_ctx.result_hold_timer # NULL
    /\ ~(TimerArmed("anim") /\ TimerArmed("hold"))

\* the second die of a roll is being animated: the result-hold timer of the
\* first die has fired and the animator's timer is the one armed
C32_Witness ==
  /\ Rolling
  /\ s_ctx.initialized
  /\ obs.completes = 1
  /\ s_state.running
  /\ TimerArmed("anim")
  /\ ~TimerArmed("hold")

\* C33: the quick-roll flags agree with each other and with the state:
\* quick_roll_active equals has_saved_model, and quick_roll_active holds only
\* in ROLLING or RESULTS; it is false in PICK_DIE, PICK_COUNT and
\* ADD_GROUP_PROMPT, so prv_begin_quick_roll is never entered while a saved
\* model is still held.
C33_QuickRollFlags ==
  /\ s_ctx.quick_roll_active = s_ctx.has_saved_model
  /\ s_ctx.quick_roll_active => s_ctx.current_state \in {"ROLLING", "RESULTS"}
  /\ s_ctx.current_state \in {"PICK_DIE", "PICK_COUNT", "ADD_GROUP_PROMPT"}
       => ~s_ctx.quick_roll_active /\ ~s_ctx.has_saved_model

\* a quick roll of two dice started from PICK_COUNT, its first die committed
C33_Witness ==
  /\ Rolling
  /\ s_ctx.quick_roll_active
  /\ s_ctx.has_saved_model
  /\ s_ctx.saved_model.selected_count = 2
  /\ s_ctx.saved_model.group_count = 0
  /\ obs.completes = 1

\* C34: in ADD_GROUP_PROMPT, ROLLING and RESULTS there is at least one
\* committed group, and in PICK_DIE, PICK_COUNT and ADD_GROUP_PROMPT the roll
\* cursor is (0, 0).  So in ADD_GROUP_PROMPT Select-Hold always takes the
\* prv_begin_roll branch, never the quick roll, and Back without a pending
\* confirmation always rewinds, never falls through to PICK_DIE.
C34_GroupsAndCursor ==
  /\ s_ctx.current_state \in {"ADD_GROUP_PROMPT", "ROLLING", "RESULTS"}
       => s_ctx.model.group_count >= 1
  /\ s_ctx.current_state \in {"PICK_DIE", "PICK_COUNT", "ADD_GROUP_PROMPT"}
       => s_ctx.model.roll_group_index = 0 /\ s_ctx.model.roll_die_index = 0
  /\ InPrompt => /\ model_has_groups(s_ctx.model)
                 /\ \A r \in Rands :
                      /\ prv_rewind_last_group_ok(Enter(r))
                      /\ state_handle_select_long(Enter(r)) = prv_begin_roll(Enter(r))
                      /\ ~s_ctx.confirm_clear_prompt =>
                           state_handle_back(Enter(r)).ctx.current_state = "PICK_COUNT"

\* back in PICK_DIE after a roll of two or more dice, whose cursor had moved
C34_Witness ==
  /\ InPickDie
  /\ rolls = 1
  /\ roll_commits >= 2
  /\ s_ctx.initialized
  /\ s_ctx.model.group_count = 0
  /\ s_ctx.model.roll_group_index = 0
  /\ s_ctx.model.roll_die_index = 0

\* C35: the confirmation prompt is armed only in ADD_GROUP_PROMPT with at
\* least one committed group, and every step that leaves ADD_GROUP_PROMPT
\* (Select, Back with rewind, Select-Hold starting a roll) leaves it disarmed,
\* in the context and in the snapshot.
C35_PromptOnlyInAddGroup ==
  /\ [](s_ctx.confirm_clear_prompt => InPrompt /\ s_ctx.model.group_count >= 1)
  /\ [](view.confirm_clear_prompt => InPrompt /\ s_ctx.confirm_clear_prompt)
  /\ [][(InPrompt /\ ~InPrompt') =>
          ~s_ctx'.confirm_clear_prompt /\ ~view'.confirm_clear_prompt]_vars
  /\ [][(InPrompt /\ s_ctx.initialized /\ Select) =>
          InPickDie' /\ ~s_ctx'.confirm_clear_prompt]_vars
  /\ [][(InPrompt /\ s_ctx.initialized /\ SelectLong) =>
          Rolling' /\ ~s_ctx'.confirm_clear_prompt]_vars
  /\ [][(InPrompt /\ s_ctx.initialized /\ Back) =>
          /\ ~s_ctx'.confirm_clear_prompt
          /\ IF s_ctx.confirm_clear_prompt THEN InPrompt' ELSE InPickCount']_vars

\* the prompt is armed over one committed group and Select-Hold from here
\* starts the roll with the prompt disarmed
C35_Witness ==
  /\ s_ctx.initialized
  /\ InPrompt
  /\ s_ctx.confirm_clear_prompt
  /\ s_ctx.model.group_count = 1
  /\ UserMay("select_long")
  /\ \A r \in Rands :
       /\ state_handle_select_long(Enter(r)).ctx.current_state = "ROLLING"
       /\ ~state_handle_select_long(Enter(r)).ctx.confirm_clear_prompt

\* C36: in every state reached through input events and timer callbacks the
\* model is in range: group_count is in 0..MAX_DICE_GROUPS, selected_die_index
\* in 0..DICE_KIND_COUNT-1, selected_count in 1..MAX_DICE_PER_GROUP, and every
\* committed group has a count in 1..MAX_DICE_PER_GROUP, a valid die_def_index
\* and the display sides of its kind.
C36_ModelInRange ==
  LET m == s_ctx.model
  IN /\ m.group_count \in 0..MAX_DICE_GROUPS
     /\ m.selected_die_index \in 0..(DICE_KIND_COUNT - 1)
     /\ m.selected_count \in 1..MAX_DICE_PER_GROUP
     /\ \A g \in 0..(m.group_count - 1) :
          /\ m.groups[g].count \in 1..MAX_DICE_PER_GROUP
          /\ HasDieDef(m.groups[g].die_def_index)
          /\ m.groups[g].sides = s_die_defs[m.groups[g].die_def_index].display_sides

\* a group of MAX_DICE_PER_GROUP dice of the last kind is committed
C36_Witness ==
  /\ InPrompt
  /\ s_ctx.model.group_count = 1
  /\ s_ctx.model.groups[0].count = MAX_DICE_PER_GROUP
  /\ s_ctx.model.groups[0].die_def_index = DICE_KIND_COUNT - 1
  /\ s_ctx.model.groups[0].sides = 100
  /\ s_ctx.model.selected_count = 1

\* C37: the committed value is the value last shown.  Every call of the
\* completion callback with a value v comes directly after a preview callback
\* with the same v, and the result stored for the animated die is the rolling
\* value that preview displayed.  At the Hold expiry v is the value of the
\* last final-settle tick, already on display; on a skip v is sampled and
\* previewed in the same handler, also when a pending final value was held.
C37_CommitIsLastPreview ==
  /\ [][obs'.completes > obs.completes =>
          LET m == s_ctx.model
              stored == s_ctx'.model.groups[m.roll_group_index].results[m.roll_die_index]
          IN /\ obs'.completes = obs.completes + 1
             /\ Len(obs'.last) = 2
             /\ obs'.last[1][1] = "on_preview"
             /\ obs'.last[2][1] = "on_complete"
             /\ obs'.last[1][2] = obs'.last[2][2]
             /\ stored = prv_normalize_roll_value(Enter(<<>>), obs'.last[2][2])
             /\ AnimTimer =>
                  /\ obs'.previews = obs.previews
                  /\ Len(obs.last) >= 1
                  /\ obs.last[Len(obs.last)] = <<"on_preview", s_state.pending_final_value>>
                  /\ obs'.last[2][2] = s_state.pending_final_value
                  /\ stored = s_ctx.rolling_value
                  /\ stored = view.rolling_value
             /\ SkipRequest => obs'.previews = obs.previews + 1]_vars
  /\ [][(AnimTimer /\ s_state.running /\ s_state.in_hold_stage) =>
          obs'.completes = obs.completes + 1]_vars
  /\ [][(SkipRequest /\ s_state.running) => obs'.completes = obs.completes + 1]_vars

\* a skip during Hold has completed with a freshly sampled value that differs
\* from the pending final value, and that value was previewed first
C37_Witness ==
  /\ ~s_state.running
  /\ s_state.in_hold_stage
  /\ s_state.has_pending_value
  /\ Len(obs.last) = 2
  /\ obs.last[1][1] = "on_preview"
  /\ obs.last[2][1] = "on_complete"
  /\ obs.last[1][2] = obs.last[2][2]
  /\ obs.last[2][2] # s_state.pending_final_value

\* C38: commit and rewind are a round trip.  In PICK_COUNT with fewer than
\* MAX_DICE_GROUPS groups, Select commits the selection and enters
\* ADD_GROUP_PROMPT with no confirmation pending, and Back from there returns
\* to PICK_COUNT with the selection (kind and count), the group_count and the
\* kinds and counts of the groups that were there before the Select.
C38_CommitRewindRoundTrip ==
  /\ []((s_ctx.initialized /\ InPickCount /\ s_ctx.model.group_count < MAX_DICE_GROUPS) =>
          LET prompt == state_handle_select(Enter(<<>>))
              back == state_handle_back(prompt)
          IN /\ prompt.ctx.current_state = "ADD_GROUP_PROMPT"
             /\ ~prompt.ctx.confirm_clear_prompt
             /\ prompt.ctx.model.group_count = s_ctx.model.group_count + 1
             /\ back.ctx.current_state = "PICK_COUNT"
             /\ back.view.state = "PICK_COUNT"
             /\ back.ctx.model.selected_die_index = s_ctx.model.selected_die_index
             /\ back.ctx.model.selected_count = s_ctx.model.selected_count
             /\ back.ctx.model.group_count = s_ctx.model.group_count
             /\ GroupList(back.ctx.model) = GroupList(s_ctx.model))
  /\ [][(s_ctx.initialized /\ InPickCount /\ s_ctx.model.group_count < MAX_DICE_GROUPS
            /\ Select) =>
          /\ InPrompt'
          /\ ~s_ctx'.confirm_clear_prompt
          /\ state_handle_back(Enter(<<>>)').ctx.model.selected_die_index
               = s_ctx.model.selected_die_index
          /\ state_handle_back(Enter(<<>>)').ctx.model.selected_count
               = s_ctx.model.selected_count
          /\ GroupList(state_handle_back(Enter(<<>>)').ctx.model) = GroupList(s_ctx.model)]_vars

\* PICK_COUNT after the round trip: no group is committed, and slot 0 still
\* holds the group of three d4 that Select committed and Back rewound into the
\* selection
C38_Witness ==
  /\ s_ctx.initialized
  /\ InPickCount
  /\ s_ctx.model.group_count = 0
  /\ s_ctx.model.selected_die_index = DICE_KIND_D4
  /\ s_ctx.model.selected_count = 3
  /\ s_ctx.model.groups[0].die_def_index = DICE_KIND_D4
  /\ s_ctx.model.groups[0].count = 3
  /\ s_ctx.model.groups[0].sides = 4

\* C39: roll_anim_start is only called while the animator is idle.  A handler
\* that starts an animation begins with the animator idle and no animator
\* timer armed, starts exactly one animation and calls no preview or
\* completion callback; a handler that calls a callback (the animator's timer
\* handler, a skip) starts no animation, so the bookkeeping after the
\* completion callback leaves the animator idle with no timer, clobbering
\* nothing.  A roll started again from RESULTS also finds the animator idle.
C39_StartOnlyWhenIdle ==
  /\ [][(obs'.starts > obs.starts \/ rolls' > rolls) =>
          /\ ~s_state.running
          /\ s_state.timer = NULL
          /\ ~TimerArmed("anim")
          /\ obs'.starts = (IF rolls' > rolls THEN 0 ELSE obs.starts) + 1
          /\ obs'.previews = 0
          /\ obs'.completes = (IF rolls' > rolls THEN 0 ELSE obs.completes)
          /\ s_state'.running
          /\ TimerArmed("anim")'
          /\ HoldTimer \/ (SelectLong /\ ~Rolling) \/ (Up /\ InResults)]_vars
  /\ [][(AnimTimer \/ (SkipRequest /\ s_state.running)) =>
          obs'.starts = obs.starts /\ rolls' = rolls]_vars
  /\ [][obs'.completes > obs.completes =>
          /\ ~s_state'.running
          /\ s_state'.timer = NULL
          /\ ~TimerArmed("anim")'
          /\ obs'.starts = obs.starts]_vars
  /\ []((s_ctx.initialized /\ InResults) =>
          /\ ~s_state.running
          /\ \A r \in [1..1 -> RandOutputs] :
               \A again \in {state_handle_up(Enter(r)), state_handle_select_long(Enter(r))} :
                 /\ again.ctx.current_state = "ROLLING"
                 /\ again.obs.starts = 1
                 /\ again.obs.previews = 0
                 /\ again.obs.completes = 0
                 /\ again.anim.running
                 /\ Cardinality(again.timers) = 1)

\* the second animation of a roll runs: it was started by the result-hold
\* timer's callback after the first had completed and gone idle
C39_Witness ==
  /\ Rolling
  /\ obs.starts = 2
  /\ obs.completes = 1
  /\ obs.previews = 3
  /\ s_state.running
  /\ s_state.stage_tick = 3
  /\ TimerArmed("anim")

=============================================================================
